---- MODULE Spec2Model ----
(***************************************************************************)
(* EEPROM Manager: replicated storage of one JSON document on a pool of    *)
(* EEPROM device files.  Devices are modelled byte by byte (a byte is an   *)
(* integer 0..255, 0 is NUL); every facade operation of the library is one *)
(* action; a process is one user of the library with its own module-level  *)
(* state (pool list, good_eeprom, mutex).                                  *)
(***************************************************************************)
EXTENDS Integers, Sequences, FiniteSets, TLC

(***************************************************************************)
(* Bounds of the model.                                                    *)
(***************************************************************************)
\* bs column of every line of the configuration file
BlockSize == 83
\* size / bs of every line of the configuration file
BlockCount == 2
\* sets and clears are taken only while every cached write count is below it
MaxWc == 3
\* number of injected write failures in one behaviour
MaxFaults == 1
\* number of process terminations (exit, kill, power loss) in one behaviour
MaxExits == 1
\* the longest transfer asked of read_write_all, in bytes
MaxBytes == 2

(***************************************************************************)
(* Constants of eeprom-manager.h.                                          *)
(***************************************************************************)
\* "eepman"
EEPROM_MANAGER_MAGIC == <<101, 101, 112, 109, 97, 110>>
SHA256_DIGEST_LENGTH == 32
EEPROM_MANAGER_SHA_STRING_LENGTH == SHA256_DIGEST_LENGTH * 2 + 1
EEPROM_MANAGER_WC_STRING_LENGTH == 10 + 1
EEPROM_MANAGER_METADATA_LENGTH ==
    EEPROM_MANAGER_SHA_STRING_LENGTH + EEPROM_MANAGER_WC_STRING_LENGTH
        + Len(EEPROM_MANAGER_MAGIC)
EEPROM_MANAGER_SET_NO_CREATE == 1
EEPROM_MANAGER_MAX_VALUE_LENGTH == 300
EEPROM_MANAGER_MAX_RW_ATTEMPTS == 100

\* Return codes.  -1 is "check errno"; the library's own errors are below -1.
EEPROM_MANAGER_ERROR_ERRNO == -1
EEPROM_MANAGER_ERROR_NO_GOOD_DEVICES_FOUND == -2
EEPROM_MANAGER_ERROR_METADATA_BAD_MAGIC == -3
EEPROM_MANAGER_ERROR_CHECKSUM_FAILED == -4
EEPROM_MANAGER_ERROR_JSON_PARSE_FAIL == -5
EEPROM_MANAGER_ERROR_JSON_ROOT_NOT_OBJECT == -6
EEPROM_MANAGER_ERROR_JANSSON_ERROR == -7
EEPROM_MANAGER_ERROR_JSON_READ_KEY_NOT_FOUND == -8
EEPROM_MANAGER_ERROR_JSON_READ_KEY_NOT_STRING == -9
EEPROM_MANAGER_ERROR_WRITE_JSON_TOO_LONG == -10
EEPROM_MANAGER_ERROR_WRITE_KEY_NOT_FOUND == -11

(***************************************************************************)
(* C strings and buffers.                                                  *)
(***************************************************************************)
Min(a, b) == IF a < b THEN a ELSE b

\* A NULL pointer: in the data field of a struct eeprom, or passed as a string.
NoData == <<-1>>

Zeros(n) == SubSeq([i \in 1..n |-> 0], 1, n)

\* index (1-based) of the first NUL of buf, 0 when there is none
FirstNul(buf) ==
    IF \A i \in 1..Len(buf) : buf[i] # 0 THEN 0
    ELSE CHOOSE i \in 1..Len(buf) :
            buf[i] = 0 /\ \A j \in 1..(i - 1) : buf[j] # 0

\* strlen-delimited contents of a char array
CStr(buf) ==
    LET n == FirstNul(buf)
    IN IF n = 0 THEN buf ELSE SubSeq(buf, 1, n - 1)

\* clear_after_null: the buffer with every byte after the first NUL cleared,
\* and the 0-based position of that NUL (-1 when there is none)
clear_after_null(buf) ==
    LET n == FirstNul(buf)
    IN [r   |-> n - 1,
        buf |-> IF n = 0 THEN buf
                ELSE SubSeq(buf, 1, n - 1) \o Zeros(Len(buf) - n + 1)]

\* strncpy(dst, src, n) into a buffer of n bytes: src, then NUL padding
strncpy(src, n) ==
    IF Len(src) >= n THEN SubSeq(src, 1, n) ELSE src \o Zeros(n - Len(src))

(***************************************************************************)
(* The digest.  SHA-256 is modelled by a polynomial hash printed as 64     *)
(* lowercase hex digits, as get_sha256_string prints the digest.           *)
(***************************************************************************)
RECURSIVE HashOf(_, _, _)
\* [h, p]: the polynomial hash of s[lo..hi] and 31^(hi - lo + 1), both
\* modulo 46337, by halving the span
HashOf(s, lo, hi) ==
    IF lo > hi THEN [h |-> 0, p |-> 1]
    ELSE IF lo = hi THEN [h |-> s[lo] % 46337, p |-> 31]
    ELSE LET mid == (lo + hi) \div 2
             l == HashOf(s, lo, mid)
             r == HashOf(s, mid + 1, hi)
         IN [h |-> (l.h * r.p + r.h) % 46337, p |-> (l.p * r.p) % 46337]

HexDigit(n) == IF n < 10 THEN 48 + n ELSE 87 + n

Pow16(e) == IF e = 0 THEN 1 ELSE IF e = 1 THEN 16 ELSE IF e = 2 THEN 256
            ELSE 4096

get_sha256_string(data_buffer) ==
    LET h == (HashOf(data_buffer, 1, Len(data_buffer)).h + 7 * Len(data_buffer))
                 % 46337
        n == SHA256_DIGEST_LENGTH * 2
    IN SubSeq([i \in 1..n |->
                 IF i <= n - 4 THEN 48 ELSE HexDigit((h \div Pow16(n - i)) % 16)],
              1, n)

(***************************************************************************)
(* The write count: an unsigned int, printed with "%010u" and read back    *)
(* with sscanf.  -1 stands for UINT_MAX, the value 0 - 1 wraps to.         *)
(***************************************************************************)
WcDec(wc) == wc - 1
WcInc(wc) == wc + 1

Pow10(e) == IF e = 0 THEN 1 ELSE IF e = 1 THEN 10 ELSE IF e = 2 THEN 100
            ELSE IF e = 3 THEN 1000 ELSE IF e = 4 THEN 10000
            ELSE IF e = 5 THEN 100000 ELSE IF e = 6 THEN 1000000
            ELSE IF e = 7 THEN 10000000 ELSE IF e = 8 THEN 100000000
            ELSE 1000000000

\* sprintf(buffer, "%010u", wc): ten decimal digits and the terminating NUL
sprintf_wc(wc) ==
    SubSeq([i \in 1..EEPROM_MANAGER_WC_STRING_LENGTH |->
              IF i = EEPROM_MANAGER_WC_STRING_LENGTH THEN 0
              ELSE 48 + ((wc \div Pow10(10 - i)) % 10)],
           1, EEPROM_MANAGER_WC_STRING_LENGTH)

IsDigit(c) == c >= 48 /\ c <= 57

RECURSIVE ScanDigits(_, _, _)
ScanDigits(buf, i, acc) ==
    IF i > 10 \/ i > Len(buf) \/ ~IsDigit(buf[i]) THEN acc
    ELSE ScanDigits(buf, i + 1, acc * 10 + (buf[i] - 48))

\* sscanf(buffer, "%010u", &wc): wc keeps its old value when no digit is read
sscanf_wc(buf, old) ==
    IF Len(buf) = 0 \/ ~IsDigit(buf[1]) THEN old ELSE ScanDigits(buf, 1, 0)

(***************************************************************************)
(* The JSON codec (jansson), by its contract: json_dumps(JSON_COMPACT)     *)
(* prints an object of string values, json_loads reads it back.  An object *)
(* is a function from a set of keys to values.                             *)
(***************************************************************************)
\* "a", "b"
Keys == {<<97>>, <<98>>}

\* a long value: a document with one such value reaches into the last block
\* of a device, a document with two of them is longer than a device
BigValue ==
    LET n == BlockSize * BlockCount - EEPROM_MANAGER_METADATA_LENGTH - 3
    IN SubSeq([i \in 1..n |-> 120], 1, n)

\* "x" and the long value
Values == {<<120>>, BigValue}

Objects == UNION {[S -> Values] : S \in SUBSET Keys}

EmptyObject == CHOOSE o \in Objects : DOMAIN o = {}

Quoted(s) == <<34>> \o s \o <<34>>

RECURSIVE DumpMembers(_, _)
\* the members of obj with keys in ks, in key order, separated by commas
DumpMembers(obj, ks) ==
    IF ks = {} THEN <<>>
    ELSE LET k == CHOOSE x \in ks : \A y \in ks : x[1] <= y[1]
             rest == ks \ {k}
         IN Quoted(k) \o <<58>> \o Quoted(obj[k])
              \o (IF rest = {} THEN <<>> ELSE <<44>> \o DumpMembers(obj, rest))

json_dumps(obj) == <<123>> \o DumpMembers(obj, DOMAIN obj) \o <<125>>

ObjectTexts == [o \in Objects |-> json_dumps(o)]

\* "[]": a JSON text whose root is not an object
ArrayText == <<91, 93>>

\* json_loads: kind is "object", "array" (root is no object) or "fail"
json_loads(text) ==
    IF \E o \in Objects : ObjectTexts[o] = text
    THEN [kind |-> "object", obj |-> CHOOSE o \in Objects : ObjectTexts[o] = text]
    ELSE IF text = ArrayText THEN [kind |-> "array", obj |-> EmptyObject]
    ELSE [kind |-> "fail", obj |-> EmptyObject]

\* utf8_check_string of json_string: the values here are ASCII or hold the
\* byte 0xFF, which no UTF-8 text holds
utf8_check_string(value) == \A i \in 1..Len(value) : value[i] < 128

\* json_object_set(obj, key, json_string(value))
\* json_object_set that adds a member and leaves a member that is there
json_object_set_absent(obj, key, value) ==
    IF key \in DOMAIN obj THEN obj
    ELSE [k \in DOMAIN obj \cup {key} |-> IF k = key THEN value ELSE obj[k]]

json_object_set(obj, key, value) ==
    [k \in DOMAIN obj \cup {key} |-> IF k = key THEN value ELSE obj[k]]

\* json_object_del(obj, key): nothing changes when the key is absent
json_object_del(obj, key) == [k \in DOMAIN obj \ {key} |-> obj[k]]

(***************************************************************************)
(* Devices.  A device file is a sequence of bytes; its last bs bytes are   *)
(* the footer block.  A struct eeprom is a record                          *)
(*   [path, bs, count, fd, sha256, wc, data]                               *)
(* with sha256 the cached digest as a C string, data NoData or the C       *)
(* string held by the buffer (the buffer is NUL from there to its end).    *)
(***************************************************************************)
\* write(fd, bytes) at byte offset off (0-based); bytes past the end are lost
WriteAt(image, off, bytes) ==
    LET n == Min(Len(bytes), Len(image) - off)
    IN SubSeq(image, 1, off) \o SubSeq(bytes, 1, n)
       \o SubSeq(image, off + n + 1, Len(image))

\* lseek(fd, -1 * bs, SEEK_END)
FooterOffset(image, e) == Len(image) - e.bs

\* block i (0-based) of the buffer that holds the C string data
BufferBlock(data, i, bs) ==
    strncpy(SubSeq(data, i * bs + 1, Min(Len(data), (i + 1) * bs)), bs)

\* number of data blocks the write loop of read_write_eeprom transfers: it
\* stops after the block that holds the first NUL, or after count blocks
BlocksWritten(e) == Min(e.count, (Len(e.data) \div e.bs) + 1)

\* The calls of read_write_all(device, 'w', ...) that read_write_eeprom and
\* read_write_eeprom_metadata make for one write, in order, each as
\* [off, bytes]: the zeroed footer block, the data blocks, magic, sha, wc.
WriteSteps(image, e) ==
    LET f  == FooterOffset(image, e)
        nb == BlocksWritten(e)
        m  == Len(EEPROM_MANAGER_MAGIC) + 1
    IN <<[off |-> f, bytes |-> Zeros(e.bs)]>>
       \o [i \in 1..nb |->
             [off |-> (i - 1) * e.bs,
              bytes |-> clear_after_null(BufferBlock(e.data, i - 1, e.bs)).buf]]
       \o <<[off |-> f, bytes |-> EEPROM_MANAGER_MAGIC \o <<0>>],
            [off |-> f + m,
             bytes |-> strncpy(e.sha256, EEPROM_MANAGER_SHA_STRING_LENGTH)],
            [off |-> f + m + EEPROM_MANAGER_SHA_STRING_LENGTH,
             bytes |-> sprintf_wc(e.wc)]>>

RECURSIVE ApplySteps(_, _, _)
\* the device after the first n calls of steps
ApplySteps(image, steps, n) ==
    IF n = 0 THEN image
    ELSE LET prev == ApplySteps(image, steps, n - 1)
         IN WriteAt(prev, steps[n].off, steps[n].bytes)

\* read_write_eeprom_metadata(device, 'r')
ReadMetadata(image, e) ==
    LET f  == FooterOffset(image, e)
        m  == Len(EEPROM_MANAGER_MAGIC) + 1
        s  == EEPROM_MANAGER_SHA_STRING_LENGTH
        w  == EEPROM_MANAGER_WC_STRING_LENGTH
    IN IF SubSeq(image, f + 1, f + m) # EEPROM_MANAGER_MAGIC \o <<0>>
       THEN [r |-> EEPROM_MANAGER_ERROR_METADATA_BAD_MAGIC, e |-> e]
       ELSE [r |-> w,
             e |-> [e EXCEPT
                      !.sha256 = CStr(SubSeq(image, f + m + 1, f + m + s)),
                      !.wc = sscanf_wc(SubSeq(image, f + m + s + 1, f + m + s + w),
                                       e.wc)]]

RECURSIVE ReadBlocks(_, _, _)
\* the read loop of read_write_eeprom from block i on: the bytes in front
\* of the first NUL, read block by block for at most count blocks
ReadBlocks(image, e, i) ==
    IF i >= e.count THEN <<>>
    ELSE LET c == clear_after_null(SubSeq(image, i * e.bs + 1, (i + 1) * e.bs))
         IN IF c.r >= 0 THEN SubSeq(c.buf, 1, c.r)
            ELSE c.buf \o ReadBlocks(image, e, i + 1)

\* read_write_eeprom(device, 'r'): the buffer is filled before the footer is
\* read, so it is kept also when the footer has no magic
ReadEeprom(image, e) ==
    LET Loaded(d, m) == [r |-> IF m.r < 0 THEN m.r ELSE Len(d), e |-> m.e]
        Filled(d) == Loaded(d, ReadMetadata(image, [e EXCEPT !.data = d]))
    IN Filled(ReadBlocks(image, e, 0))

(***************************************************************************)
(* Writing and verifying one replica.  An injected I/O failure is the      *)
(* number of the read_write_all call of the write that fails (0: none);    *)
(* the calls before it have reached the device.  Results carry             *)
(*   e       the struct eeprom afterwards                                  *)
(*   image   the device afterwards                                         *)
(*   r       the return value                                              *)
(*   log     the writes that went through: [path, old, new], the footer    *)
(*           on the device before the write and after it                   *)
(*   faulted whether the injected failure happened.                        *)
(***************************************************************************)
NoFault == [idx |-> 0, step |-> 0]

\* what the footer block of a device says: whether the magic is there, and
\* the write count a reader gets from it (0 without magic)
Footer(image, e) ==
    LET Decoded(m) == [magic |-> m.r >= 0, wc |-> m.e.wc]
    IN Decoded(ReadMetadata(image, [e EXCEPT !.wc = 0, !.sha256 = <<>>]))

write_eeprom(e, image, failStep) ==
    LET Unwritten(r) ==
            [e |-> e, image |-> image, r |-> r, log |-> <<>>, faulted |-> FALSE]
        Transferred(e1, done, failed) ==
            [e |-> e1, image |-> done,
             r |-> IF failed THEN -1
                   ELSE IF Len(e1.data) \div e1.bs < e1.count
                   THEN Len(e1.data) ELSE e1.count * e1.bs,
             log |-> IF failed THEN <<>>
                     ELSE <<[path |-> e1.path, old |-> Footer(image, e1),
                             new |-> Footer(done, e1)]>>,
             faulted |-> failed]
        Calls(e1, steps, failed) ==
            Transferred(e1,
                        ApplySteps(image, steps,
                                   IF failed THEN failStep - 1 ELSE Len(steps)),
                        failed)
        Changed(e1, steps) == Calls(e1, steps, failStep \in 1..Len(steps))
        Counted(e1) == Changed(e1, WriteSteps(image, e1))
        Hashed(sha256) ==
            IF e.sha256 = sha256 THEN Unwritten(0)
            ELSE Counted([e EXCEPT !.sha256 = sha256, !.wc = WcInc(e.wc)])
    IN IF e.data = NoData THEN Unwritten(-1)
       ELSE Hashed(get_sha256_string(e.data))

clone_eeproms(src, dest, image, failStep) ==
    [write_eeprom([dest EXCEPT !.sha256 = <<>>, !.wc = WcDec(src.wc),
                               !.data = src.data],
                  image, failStep)
       EXCEPT !.e.data = NoData]

RECURSIVE WriteAllFrom(_, _, _, _, _)
\* the loop of write_all_eeproms from list position d on; src is the
\* position of the source in the list (0 for NULL)
WriteAllFrom(pool, src, devs, fault, d) ==
    LET Summed(w, rest) ==
            [rest EXCEPT !.r = IF rest.r < 0 THEN rest.r ELSE w.r + rest.r,
                         !.log = w.log \o rest.log,
                         !.faulted = w.faulted \/ rest.faulted]
        Stepped(w, pool1, devs1) ==
            IF w.r < 0
            THEN [pool |-> pool1, devs |-> devs1, r |-> w.r, log |-> w.log,
                  faulted |-> w.faulted]
            ELSE Summed(w, WriteAllFrom(pool1, src, devs1, fault, d + 1))
        Wrote(w) ==
            Stepped(w, [pool EXCEPT ![d] = w.e],
                    [devs EXCEPT ![pool[d].path] = w.image])
        Source(e, fs) ==
            Wrote(IF src # 0 /\ src # d
                  THEN clone_eeproms(pool[src], e, devs[e.path], fs)
                  ELSE write_eeprom(e, devs[e.path], fs))
    IN IF d > Len(pool)
       THEN [pool |-> pool, devs |-> devs, r |-> 0, log |-> <<>>,
             faulted |-> FALSE]
       ELSE Source(pool[d], IF fault.idx = d THEN fault.step ELSE 0)

\* write_all_eeproms whose loop starts at the second entry of the list
write_all_eeproms_rest(pool, src, devs, fault) ==
    WriteAllFrom(pool, src, devs, fault, 2)

write_all_eeproms(pool, src, devs, fault) == WriteAllFrom(pool, src, devs, fault, 1)

\* verify_eeprom without the comparison of the digests: whatever can be
\* read with a footer is accepted
verify_eeprom_unchecked(e, image) ==
    LET Read(rd) == [r |-> IF rd.r < 0 THEN rd.r ELSE 0, e |-> rd.e]
    IN Read(ReadEeprom(image, e))

verify_eeprom(e, image) ==
    LET Checked(rd) ==
            IF rd.r < 0 THEN [r |-> rd.r, e |-> rd.e]
            ELSE IF get_sha256_string(rd.e.data) # rd.e.sha256
            THEN [r |-> EEPROM_MANAGER_ERROR_CHECKSUM_FAILED,
                  e |-> [rd.e EXCEPT !.data = NoData]]
            ELSE [r |-> 0, e |-> rd.e]
    IN Checked(ReadEeprom(image, e))

RECURSIVE LoadMetadataFrom(_, _, _, _)
\* first loop of find_good_eeprom from list position d on: loads the footer
\* of every device and builds max_wc_eeprom (list positions, in array order)
LoadMetadataFrom(pool, devs, max, d) ==
    LET Listed(pool1, max1) ==
            LoadMetadataFrom(pool1, devs,
                             IF pool1[d].wc = pool1[max1[1]].wc
                             THEN Append(max1, d) ELSE max1,
                             d + 1)
        Compared(pool1) ==
            IF max = <<>> THEN LoadMetadataFrom(pool1, devs, <<d>>, d + 1)
            ELSE Listed(pool1,
                        IF pool1[d].wc > pool1[max[1]].wc THEN <<d>> ELSE max)
        Read(m) ==
            IF m.r = EEPROM_MANAGER_ERROR_METADATA_BAD_MAGIC
            THEN LoadMetadataFrom(pool, devs, max, d + 1)
            ELSE Compared([pool EXCEPT ![d] = m.e])
    IN IF d > Len(pool) THEN [pool |-> pool, max |-> max]
       ELSE Read(ReadMetadata(devs[pool[d].path], pool[d]))

RECURSIVE FindVerifiedFrom(_, _, _, _)
\* second loop of find_good_eeprom from array index i on
FindVerifiedFrom(pool, devs, max, i) ==
    LET Verified(d, v, pool1) ==
            IF v.r = 0 THEN [pool |-> pool1, found |-> d]
            ELSE FindVerifiedFrom(pool1, devs, max, i + 1)
        Entry(d, v) == Verified(d, v, [pool EXCEPT ![d] = v.e])
        Candidate(d) == Entry(d, verify_eeprom(pool[d], devs[pool[d].path]))
    IN IF i > Len(max) \/ i > Len(pool) THEN [pool |-> pool, found |-> 0]
       ELSE Candidate(max[i])

\* find_good_eeprom that tries every replica of the list in list order,
\* whatever its write count
find_good_eeprom_in_order(pool, devs) ==
    LET Found(f) ==
            [pool |-> f.pool, found |-> f.found,
             r |-> IF f.found = 0
                   THEN EEPROM_MANAGER_ERROR_NO_GOOD_DEVICES_FOUND ELSE 0]
        Loaded(l) ==
            Found(FindVerifiedFrom(l.pool, devs,
                                   SubSeq([i \in 1..Len(pool) |-> i], 1, Len(pool)),
                                   1))
    IN Loaded(LoadMetadataFrom(pool, devs, <<>>, 1))

find_good_eeprom(pool, devs) ==
    LET Found(f) ==
            [pool |-> f.pool, found |-> f.found,
             r |-> IF f.found = 0
                   THEN EEPROM_MANAGER_ERROR_NO_GOOD_DEVICES_FOUND ELSE 0]
        Loaded(l) == Found(FindVerifiedFrom(l.pool, devs, l.max, 1))
    IN Loaded(LoadMetadataFrom(pool, devs, <<>>, 1))

RECURSIVE RepairFrom(_, _, _, _, _, _)
\* the loop of repair_all_eeproms from list position d on, r the return
\* value so far
RepairFrom(pool, good, devs, fault, d, r) ==
    LET Joined(w, rest) ==
            [rest EXCEPT !.log = w.log \o rest.log,
                         !.faulted = w.faulted \/ rest.faulted]
        Stepped(w, pool1, devs1) ==
            IF w.r < 0
            THEN [pool |-> pool1, devs |-> devs1, r |-> w.r, log |-> w.log,
                  faulted |-> w.faulted]
            ELSE Joined(w, RepairFrom(pool1, good, devs1, fault, d + 1, w.r))
        Cloned(w) ==
            Stepped(w, [pool EXCEPT ![d] = w.e],
                    [devs EXCEPT ![pool[d].path] = w.image])
        Skip(stale) ==
            IF stale
            THEN Cloned(clone_eeproms(pool[good], pool[d], devs[pool[d].path],
                                      IF fault.idx = d THEN fault.step ELSE 0))
            ELSE RepairFrom(pool, good, devs, fault, d + 1, r)
    IN IF d > Len(pool)
       THEN [pool |-> pool, devs |-> devs, r |-> r, log |-> <<>>,
             faulted |-> FALSE]
       ELSE Skip(d # good /\ (pool[d].wc < pool[good].wc
                                \/ pool[d].sha256 # pool[good].sha256))

\* repair_all_eeproms that checks its argument and repairs nothing
repair_all_eeproms_skipped(pool, good, devs, fault) ==
    [pool |-> pool, devs |-> devs, r |-> IF good = 0 THEN -1 ELSE 0,
     log |-> <<>>, faulted |-> FALSE]

repair_all_eeproms(pool, good, devs, fault) ==
    IF good = 0
    THEN [pool |-> pool, devs |-> devs, r |-> -1, log |-> <<>>, faulted |-> FALSE]
    ELSE RepairFrom(pool, good, devs, fault, 1, 0)

(***************************************************************************)
(* The configuration file, and the state of one process.                   *)
(***************************************************************************)
\* the device files
Devices == {1, 2}

\* the lines of /etc/eeprom-manager.conf: path, bs, size
Conf ==
    <<[path |-> 1, bs |-> BlockSize, size |-> BlockSize * BlockCount],
      [path |-> 2, bs |-> BlockSize, size |-> BlockSize * BlockCount]>>

RECURSIVE LoadConfLines(_, _, _, _, _)
\* the parse loop of load_conf_data over the lines of a configuration
\* file, from line i on; min_size is 0 and first is TRUE until a line has
\* been accepted
LoadConfLines(lines, pool, min_size, first, i) ==
    IF i > Len(lines) THEN [pool |-> pool, min_size |-> min_size]
    ELSE IF lines[i].bs < EEPROM_MANAGER_METADATA_LENGTH
    THEN LoadConfLines(lines, pool, min_size, first, i + 1)
    ELSE
      LET new_eeprom == [path |-> lines[i].path, bs |-> lines[i].bs,
                         count |-> lines[i].size \div lines[i].bs, fd |-> 0,
                         sha256 |-> <<>>, wc |-> 0, data |-> NoData]
          min1 == IF lines[i].size < min_size \/ first THEN lines[i].size
                  ELSE min_size
      IN LoadConfLines(lines, Append(pool, new_eeprom), min1, FALSE, i + 1)

LoadConfFrom(pool, min_size, first, i) ==
    LoadConfLines(Conf, pool, min_size, first, i)

\* load_conf_data with the configuration file lines: pushes one struct
\* eeprom per accepted line onto the list (whatever the list holds already)
\* and sets eeprom_data_size
load_conf_lines(pr, lines) ==
    LET l == LoadConfLines(lines, pr.pool, 0, TRUE, 1)
    IN [pr EXCEPT !.pool = l.pool, !.eeprom_data_size = l.min_size]

\* load_conf_data with the file of this installation
load_conf_data(pr) == load_conf_lines(pr, Conf)

\* A process that has called nothing yet: an empty list (first_eeprom is
\* NULL), good_eeprom NULL (0), initialized 0.  status is "run", or "hung"
\* when its thread blocks for ever inside a call.
FreshProcess ==
    [status |-> "run", initialized |-> FALSE, mutex |-> FALSE, pool |-> <<>>,
     good |-> 0, eeprom_data_size |-> 0]

is_initialized(pr) == pr.pool # <<>>

\* one pass of the loop of open_eeproms that fills fd and returns from
\* flock without the lock
OpenStepUnlocked(pool, lk, p, d) ==
    [pool |-> [pool EXCEPT ![d].fd = 1], lock |-> lk]

\* one pass of the loop of open_eeproms, for list position d: open and
\* flock(LOCK_EX) have returned 0
OpenStep(pool, lk, p, d) ==
    [pool |-> [pool EXCEPT ![d].fd = 1],
     lock |-> [lk EXCEPT ![pool[d].path] = p]]

RECURSIVE OpenFrom(_, _, _, _, _)
\* the loop of open_eeproms from list position d on.  open fails for list
\* position bad (0: for none); flock blocks for ever (hung) when this
\* process holds the lock through another open file.
OpenFrom(pool, lk, p, d, bad) ==
    LET Stepped(o) == OpenFrom(o.pool, o.lock, p, d + 1, bad)
    IN IF d > Len(pool)
       THEN [pool |-> pool, lock |-> lk, r |-> 0, hung |-> FALSE]
       ELSE IF d = bad
       THEN [pool |-> [pool EXCEPT ![d].fd = -1], lock |-> lk, r |-> -1,
             hung |-> FALSE]
       ELSE IF lk[pool[d].path] = p
       THEN [pool |-> [pool EXCEPT ![d].fd = 1], lock |-> lk, r |-> 0,
             hung |-> TRUE]
       ELSE Stepped(OpenStep(pool, lk, p, d))

open_eeproms(pool, lk, p) == OpenFrom(pool, lk, p, 1, 0)

RECURSIVE WaitsFrom(_, _, _, _)
\* open_eeproms of process p has to wait for another process
WaitsFrom(pool, lk, p, d) ==
    IF d > Len(pool) THEN FALSE
    ELSE IF lk[pool[d].path] = p THEN FALSE
    ELSE IF lk[pool[d].path] # 0 THEN TRUE
    ELSE WaitsFrom(pool, lk, p, d + 1)

RECURSIVE CloseFrom(_, _, _, _)
CloseFrom(pool, lk, p, d) ==
    IF d > Len(pool) THEN [pool |-> pool, lock |-> lk, r |-> 0]
    ELSE CloseFrom([pool EXCEPT ![d].fd = 0],
                   [lk EXCEPT ![pool[d].path] = IF @ = p THEN 0 ELSE @],
                   p, d + 1)

close_eeproms(pool, lk, p) == CloseFrom(pool, lk, p, 1)

(***************************************************************************)
(* The facade.  A call is an operator from the caller's process state, the *)
(* devices and the advisory locks to an outcome:                           *)
(*   pr, devs, lock  the three afterwards                                  *)
(*   r, out          the return value and the bytes put in the out buffer  *)
(*   hung            the thread never returns: it blocks in                *)
(*                   pthread_mutex_lock on the mutex it holds itself, or   *)
(*                   in flock on a lock it holds through another open file *)
(*   log, faulted    as for the replica operations.                        *)
(***************************************************************************)
Returns(pr, devs, lk, r) ==
    [pr |-> pr, devs |-> devs, lock |-> lk, r |-> r, out |-> <<>>,
     hung |-> FALSE, log |-> <<>>, faulted |-> FALSE]

Hangs(pr, devs, lk) ==
    [pr |-> pr, devs |-> devs, lock |-> lk, r |-> 0, out |-> <<>>,
     hung |-> TRUE, log |-> <<>>, faulted |-> FALSE]

\* json_loads(good_eeprom->data, ...) that takes any text for an object
LoadGoodLenient(pr) ==
    [kind |-> "object",
     obj |-> IF pr.good = 0 \/ pr.pool[pr.good].data = NoData THEN EmptyObject
             ELSE json_loads(pr.pool[pr.good].data).obj]

\* json_loads(good_eeprom->data, ...)
LoadGood(pr) ==
    IF pr.good = 0 \/ pr.pool[pr.good].data = NoData
    THEN [kind |-> "fail", obj |-> EmptyObject]
    ELSE json_loads(pr.pool[pr.good].data)

eeprom_manager_initialize(pr, devs, lk, p, fault) ==
    LET Done(pr2, rp, lk2, r) ==
            [Returns(pr2, rp.devs, lk2, r)
               EXCEPT !.log = rp.log, !.faulted = rp.faulted]
        Closed(pr1, f, rp, c) ==
            Done([pr1 EXCEPT !.pool = c.pool, !.good = f.found,
                             !.initialized = TRUE, !.mutex = FALSE],
                 rp, c.lock, 0)
        Repaired(pr1, o, f, rp) ==
            IF rp.r < 0
            THEN Done([pr1 EXCEPT !.pool = rp.pool, !.good = f.found], rp,
                      o.lock, rp.r)
            ELSE Closed(pr1, f, rp, close_eeproms(rp.pool, o.lock, p))
        NoGood(pr1, f, c) ==
            Returns([pr1 EXCEPT !.pool = c.pool, !.good = f.found], devs,
                    c.lock, f.r)
        Found(pr1, o, f) ==
            IF f.r < 0 THEN NoGood(pr1, f, close_eeproms(f.pool, o.lock, p))
            ELSE Repaired(pr1, o, f,
                          repair_all_eeproms(f.pool, f.found, devs, fault))
        Opened(pr1, o) ==
            IF o.hung THEN Hangs([pr1 EXCEPT !.pool = o.pool], devs, o.lock)
            ELSE Found(pr1, o, find_good_eeprom(o.pool, devs))
        Loaded(pr1) == Opened(pr1, open_eeproms(pr1.pool, lk, p))
    IN IF pr.initialized THEN Returns(pr, devs, lk, 0)
       ELSE Loaded(load_conf_data([pr EXCEPT !.mutex = TRUE]))

eeprom_manager_set_value(pr, devs, lk, p, key, value, flags, fault) ==
    LET Closed(pr1, w, c) ==
            [Returns([pr1 EXCEPT !.pool = c.pool, !.mutex = FALSE], w.devs,
                     c.lock, 0)
               EXCEPT !.log = w.log, !.faulted = w.faulted]
        Saved(pr1, lk1, w) == Closed(pr1, w, close_eeproms(w.pool, lk1, p))
        Copied(pr1, lk1, pool2) ==
            Saved(pr1, lk1, write_all_eeproms(pool2, pr1.good, devs, fault))
        Dumped(pr1, lk1, json_dump_data) ==
            IF Len(json_dump_data) + 1 > pr1.eeprom_data_size
            THEN Returns(pr1, devs, lk1,
                         EEPROM_MANAGER_ERROR_WRITE_JSON_TOO_LONG)
            ELSE Copied(pr1, lk1,
                        [pr1.pool EXCEPT ![pr1.good].data =
                           CStr(strncpy(json_dump_data, pr1.eeprom_data_size))])
        Parsed(pr1, lk1, j) ==
            IF j.kind = "fail"
            THEN Returns(pr1, devs, lk1, EEPROM_MANAGER_ERROR_JSON_PARSE_FAIL)
            ELSE IF j.kind # "object"
            THEN Returns(pr1, devs, lk1,
                         EEPROM_MANAGER_ERROR_JSON_ROOT_NOT_OBJECT)
            ELSE IF flags = EEPROM_MANAGER_SET_NO_CREATE
                    /\ key \notin DOMAIN j.obj
            THEN Returns(pr1, devs, lk1,
                         EEPROM_MANAGER_ERROR_WRITE_KEY_NOT_FOUND)
            ELSE IF ~utf8_check_string(value)
            THEN Returns(pr1, devs, lk1, EEPROM_MANAGER_ERROR_JANSSON_ERROR)
            ELSE Dumped(pr1, lk1,
                        json_dumps(json_object_set(j.obj, key, value)))
        Locked(pr1, o) ==
            IF o.hung THEN Hangs(pr1, devs, o.lock)
            ELSE Parsed(pr1, o.lock, LoadGood(pr1))
        Opened(o) == Locked([pr EXCEPT !.mutex = TRUE, !.pool = o.pool], o)
    IN IF ~is_initialized(pr) \/ key = NoData \/ value = NoData
       THEN Returns(pr, devs, lk, -1)
       ELSE IF pr.mutex THEN Hangs(pr, devs, lk)
       ELSE Opened(open_eeproms(pr.pool, lk, p))

\* eeprom_manager_read_value as it would be if it looked for the good
\* device again before it parses: the cached digests, counters and the
\* choice of good_eeprom follow the devices.
ReadValueReloading(pr, devs, lk, p, key, length) ==
    LET Closed(pr1, c, txt) ==
            [Returns([pr1 EXCEPT !.pool = c.pool, !.mutex = FALSE], devs,
                     c.lock, 0)
               EXCEPT !.out = SubSeq(txt, 1, Min(length, Len(txt)))]
        Parsed(pr1, lk1, j) ==
            IF j.kind = "fail"
            THEN Returns(pr1, devs, lk1, EEPROM_MANAGER_ERROR_JSON_PARSE_FAIL)
            ELSE IF j.kind # "object"
            THEN Returns(pr1, devs, lk1,
                         EEPROM_MANAGER_ERROR_JSON_ROOT_NOT_OBJECT)
            ELSE IF key \notin DOMAIN j.obj
            THEN Returns(pr1, devs, lk1,
                         EEPROM_MANAGER_ERROR_JSON_READ_KEY_NOT_FOUND)
            ELSE Closed(pr1, close_eeproms(pr1.pool, lk1, p), j.obj[key])
        Found(pr1, o, f) ==
            Parsed([pr1 EXCEPT !.pool = f.pool, !.good = f.found], o.lock,
                   LoadGood([pr1 EXCEPT !.pool = f.pool, !.good = f.found]))
        Locked(pr1, o) ==
            IF o.hung THEN Hangs(pr1, devs, o.lock)
            ELSE Found(pr1, o, find_good_eeprom(o.pool, devs))
        Opened(o) == Locked([pr EXCEPT !.mutex = TRUE, !.pool = o.pool], o)
    IN IF ~is_initialized(pr) THEN Returns(pr, devs, lk, -1)
       ELSE IF pr.mutex THEN Hangs(pr, devs, lk)
       ELSE Opened(open_eeproms(pr.pool, lk, p))

eeprom_manager_read_value(pr, devs, lk, p, key, length) ==
    LET Closed(pr1, c, txt) ==
            [Returns([pr1 EXCEPT !.pool = c.pool, !.mutex = FALSE], devs,
                     c.lock, 0)
               EXCEPT !.out = SubSeq(txt, 1, Min(length, Len(txt)))]
        Parsed(pr1, lk1, j) ==
            IF j.kind = "fail"
            THEN Returns(pr1, devs, lk1, EEPROM_MANAGER_ERROR_JSON_PARSE_FAIL)
            ELSE IF j.kind # "object"
            THEN Returns(pr1, devs, lk1,
                         EEPROM_MANAGER_ERROR_JSON_ROOT_NOT_OBJECT)
            ELSE IF key \notin DOMAIN j.obj
            THEN Returns(pr1, devs, lk1,
                         EEPROM_MANAGER_ERROR_JSON_READ_KEY_NOT_FOUND)
            ELSE Closed(pr1, close_eeproms(pr1.pool, lk1, p), j.obj[key])
        Locked(pr1, o) ==
            IF o.hung THEN Hangs(pr1, devs, o.lock)
            ELSE Parsed(pr1, o.lock, LoadGood(pr1))
        Opened(o) == Locked([pr EXCEPT !.mutex = TRUE, !.pool = o.pool], o)
    IN IF ~is_initialized(pr) THEN Returns(pr, devs, lk, -1)
       ELSE IF pr.mutex THEN Hangs(pr, devs, lk)
       ELSE Opened(open_eeproms(pr.pool, lk, p))

eeprom_manager_clear(pr, devs, lk, p, fault) ==
    LET Closed(pr2, w, lk2) ==
            [Returns([pr2 EXCEPT !.mutex = (w.r < 0)], w.devs, lk2,
                     IF w.r < 0 THEN w.r ELSE 0)
               EXCEPT !.log = w.log, !.faulted = w.faulted]
        Unlocked(pr1, w, c) ==
            Closed([pr1 EXCEPT !.pool = c.pool, !.good = 1], w, c.lock)
        Saved(pr1, lk1, w) == Unlocked(pr1, w, close_eeproms(w.pool, lk1, p))
        Locked(pr1, o) ==
            IF o.hung THEN Hangs(pr1, devs, o.lock)
            ELSE Saved(pr1, o.lock,
                         write_all_eeproms(
                            [pr1.pool EXCEPT ![1].data =
                               CStr(strncpy(<<123, 125>>, pr1.eeprom_data_size))],
                            1, devs, fault))
        Opened(o) == Locked([pr EXCEPT !.mutex = TRUE, !.pool = o.pool], o)
    IN IF ~is_initialized(pr) THEN Returns(pr, devs, lk, -1)
       ELSE IF pr.mutex THEN Hangs(pr, devs, lk)
       ELSE Opened(open_eeproms(pr.pool, lk, p))

RECURSIVE VerifyFrom(_, _, _, _, _, _)
\* the loop of eeprom_manager_verify from list position d on, ret its
\* return value so far
VerifyFrom(pool, good, devs, fault, d, ret) ==
    LET Joined(w, rest) ==
            [rest EXCEPT !.log = w.log \o rest.log,
                         !.faulted = w.faulted \/ rest.faulted]
        Cloned(w) ==
            Joined(w, VerifyFrom([pool EXCEPT ![d] = w.e], good,
                                 [devs EXCEPT ![pool[d].path] = w.image],
                                 fault, d + 1, 2))
        Verified(v) ==
            IF v.r = EEPROM_MANAGER_ERROR_CHECKSUM_FAILED
            THEN Cloned(clone_eeproms(pool[good], v.e, devs[pool[d].path],
                                      IF fault.idx = d THEN fault.step ELSE 0))
            ELSE IF v.r = -1
            THEN [pool |-> [pool EXCEPT ![d] = v.e], devs |-> devs, r |-> -1,
                  log |-> <<>>, faulted |-> FALSE]
            ELSE VerifyFrom([pool EXCEPT ![d] = [v.e EXCEPT !.data = NoData]],
                            good, devs, fault, d + 1, ret)
    IN IF d > Len(pool)
       THEN [pool |-> pool, devs |-> devs, r |-> ret, log |-> <<>>,
             faulted |-> FALSE]
       ELSE IF d = good THEN VerifyFrom(pool, good, devs, fault, d + 1, ret)
       ELSE Verified(verify_eeprom(pool[d], devs[pool[d].path]))

eeprom_manager_verify(pr, devs, lk, p, fault) ==
    LET Done(pr2, v, lk2) ==
            [Returns(pr2, v.devs, lk2, v.r)
               EXCEPT !.log = v.log, !.faulted = v.faulted]
        Closed(pr1, v, c) ==
            Done([pr1 EXCEPT !.pool = c.pool, !.mutex = FALSE], v, c.lock)
        Verified(pr1, lk1, v) ==
            IF v.r < 0 THEN Done([pr1 EXCEPT !.pool = v.pool], v, lk1)
            ELSE Closed(pr1, v, close_eeproms(v.pool, lk1, p))
        Locked(pr1, o) ==
            IF o.hung THEN Hangs(pr1, devs, o.lock)
            ELSE Verified(pr1, o.lock,
                          VerifyFrom(pr1.pool, pr1.good, devs, fault, 1, 1))
        Opened(o) == Locked([pr EXCEPT !.mutex = TRUE, !.pool = o.pool], o)
    IN IF ~is_initialized(pr) THEN Returns(pr, devs, lk, -1)
       ELSE IF pr.mutex THEN Hangs(pr, devs, lk)
       ELSE Opened(open_eeproms(pr.pool, lk, p))

\* eeprom_manager_remove_key: takes the mutex and the locks, parses the
\* cached document, deletes the mapping if it is there, serialises, and
\* writes as eeprom_manager_set_value does; a JSON error releases the locks
\* and the mutex and writes nothing
eeprom_manager_remove_key(pr, devs, lk, p, key, fault) ==
    LET Closed(pr1, w, c) ==
            [Returns([pr1 EXCEPT !.pool = c.pool, !.mutex = FALSE], w.devs,
                     c.lock, 0)
               EXCEPT !.log = w.log, !.faulted = w.faulted]
        Saved(pr1, lk1, w) == Closed(pr1, w, close_eeproms(w.pool, lk1, p))
        Dumped(pr1, lk1, json_dump_data) ==
            Saved(pr1, lk1,
                  write_all_eeproms(
                     [pr1.pool EXCEPT ![pr1.good].data =
                        CStr(strncpy(json_dump_data, pr1.eeprom_data_size))],
                     pr1.good, devs, fault))
        Failed(pr1, c, r) ==
            Returns([pr1 EXCEPT !.pool = c.pool, !.mutex = FALSE], devs,
                    c.lock, r)
        Parsed(pr1, lk1, j) ==
            IF j.kind = "fail"
            THEN Failed(pr1, close_eeproms(pr1.pool, lk1, p),
                        EEPROM_MANAGER_ERROR_JSON_PARSE_FAIL)
            ELSE IF j.kind # "object"
            THEN Failed(pr1, close_eeproms(pr1.pool, lk1, p),
                        EEPROM_MANAGER_ERROR_JSON_ROOT_NOT_OBJECT)
            ELSE Dumped(pr1, lk1, json_dumps(json_object_del(j.obj, key)))
        Locked(pr1, o) ==
            IF o.hung THEN Hangs(pr1, devs, o.lock)
            ELSE Parsed(pr1, o.lock, LoadGood(pr1))
        Opened(o) == Locked([pr EXCEPT !.mutex = TRUE, !.pool = o.pool], o)
    IN IF ~is_initialized(pr) \/ key = NoData THEN Returns(pr, devs, lk, -1)
       ELSE IF pr.mutex THEN Hangs(pr, devs, lk)
       ELSE Opened(open_eeproms(pr.pool, lk, p))

(***************************************************************************)
(* State.                                                                  *)
(***************************************************************************)
VARIABLES
    dev,      \* dev[d]: the bytes of device file d
    lock,     \* lock[d]: the process that holds the flock on d, 0 for none
    proc,     \* proc[p]: the module-level state of process p
    ret,      \* the last call: who, what, arguments, return value, out bytes
    expect,   \* key -> value of the sets that returned 0 since the last
              \* clear that returned 0, over all processes
    nsets,    \* nsets[p]: the sets of p that returned 0 and changed a key
    writes,   \* the replica writes that went through in the last call
    nfaults,  \* injected write failures so far
    nexits,   \* process terminations so far
    inside,   \* inside[t]: the call that thread t of process 1 is inside,
              \* "none" between calls; used where calls are taken thread
              \* by thread
    rw        \* the call of read_write_all that is under way, where block
              \* I/O is taken system call by system call

vars ==
    <<dev, lock, proc, ret, expect, nsets, writes, nfaults, nexits, inside, rw>>

\* the threads of a process
Threads == {1, 2}

\* no call of read_write_all is under way
NoTransfer ==
    [pc |-> "idle", op |-> "r", count |-> 0, ret |-> 0, attempts |-> 0,
     r |-> 0, errno |-> "none"]

Procs == {1, 2}

Blank == Zeros(BlockSize * BlockCount)

\* a device that holds the document text with the footer (sha256, wc)
Written(text, sha256, wc) ==
    LET Stepped(steps) == ApplySteps(Blank, steps, Len(steps))
    IN Stepped(WriteSteps(Blank,
                          [path |-> 1, bs |-> BlockSize, count |-> BlockCount,
                           fd |-> 0, sha256 |-> sha256, wc |-> wc,
                           data |-> text]))

Formatted(obj, wc) ==
    Written(json_dumps(obj), get_sha256_string(json_dumps(obj)), wc)

\* the same with a digest that is not the digest of the document
BadDigest(obj, wc) ==
    Written(json_dumps(obj), get_sha256_string(json_dumps(obj) \o <<32>>), wc)

ObjAX == [k \in {<<97>>} |-> <<120>>]

\* what a device may hold when the first process starts: nothing (a new
\* part), a document written earlier, or one whose digest has gone bad
InitImages ==
    {Blank, Formatted(EmptyObject, 1), Formatted(ObjAX, 2), BadDigest(ObjAX, 2)}

\* a call record: at is the read_write_all call at which the call was cut
\* short, before the document the caller held when it made the call
NoCall == [p |-> 0, op |-> "none", key |-> <<>>, val |-> <<>>, flags |-> 0,
           r |-> 0, out |-> <<>>, hung |-> FALSE, changed |-> FALSE,
           at |-> NoFault, before |-> EmptyObject, conf |-> <<>>]

Quiet ==
    /\ lock = [d \in Devices |-> 0]
    /\ proc = [p \in Procs |-> FreshProcess]
    /\ ret = NoCall
    /\ expect = EmptyObject
    /\ nsets = [p \in Procs |-> 0]
    /\ writes = <<>>
    /\ inside = [t \in Threads |-> "none"]
    /\ rw = NoTransfer

Init ==
    /\ dev \in [Devices -> InitImages]
    /\ Quiet
    /\ nfaults = 0
    /\ nexits = 0

(***************************************************************************)
(* Actions: one call of the facade by process p, from entry to return.     *)
(* Processes exclude each other for the whole call through the flocks that *)
(* open_eeproms takes, so a call is one step; it is enabled when it does   *)
(* not have to wait for a lock of another process.                         *)
(***************************************************************************)
Faults ==
    {NoFault} \cup
    (IF nfaults < MaxFaults
     THEN {[idx |-> i, step |-> s] : i \in 1..Len(Conf), s \in 1..(BlockCount + 4)}
     ELSE {})

\* every cached write count of p is below the bound
BelowMaxWc(p) == \A i \in 1..Len(proc[p].pool) : proc[p].pool[i].wc < MaxWc

\* the outcome o of a call of p becomes the next state
Outcome(p, o, fault, call, exp, changing) ==
    /\ fault = NoFault \/ o.faulted
    /\ dev' = o.devs
    /\ lock' = o.lock
    /\ proc' = [proc EXCEPT ![p] =
                  IF o.hung THEN [o.pr EXCEPT !.status = "hung"] ELSE o.pr]
    /\ ret' = [call EXCEPT !.p = p, !.r = o.r, !.out = o.out, !.hung = o.hung,
                           !.at = fault]
    /\ expect' = exp
    /\ nsets' = [nsets EXCEPT ![p] = IF changing THEN @ + 1 ELSE @]
    /\ writes' = o.log
    /\ nfaults' = IF o.faulted THEN nfaults + 1 ELSE nfaults
    /\ UNCHANGED <<nexits, rw>>

Finish(p, o, fault, call, exp, changing) ==
    /\ Outcome(p, o, fault, call, exp, changing)
    /\ UNCHANGED inside

Initialize(p) ==
    /\ proc[p].status = "run"
    /\ proc[p].initialized
         \/ ~WaitsFrom(load_conf_data(proc[p]).pool, lock, p, 1)
    /\ \E fault \in Faults :
         Finish(p, eeprom_manager_initialize(proc[p], dev, lock, p, fault),
                fault, [NoCall EXCEPT !.op = "initialize"], expect, FALSE)

SetValue(p) ==
    /\ proc[p].status = "run"
    /\ BelowMaxWc(p)
    /\ ~WaitsFrom(proc[p].pool, lock, p, 1)
    /\ \E key \in Keys, value \in Values,
          flags \in {0, EEPROM_MANAGER_SET_NO_CREATE}, fault \in Faults :
         LET Called(o, done, before, after) ==
                 Finish(p, o, fault,
                        [NoCall EXCEPT !.op = "set", !.key = key, !.val = value,
                                       !.flags = flags,
                                       !.changed = done /\ after.obj # before.obj],
                        IF done THEN json_object_set(expect, key, value)
                        ELSE expect,
                        done /\ after.obj # before.obj
                             /\ json_object_set(expect, key, value) # expect)
             Returned(o) ==
                 Called(o, ~o.hung /\ o.r = 0, LoadGood(proc[p]), LoadGood(o.pr))
         IN Returned(eeprom_manager_set_value(proc[p], dev, lock, p, key,
                                              value, flags, fault))

\* set called with a null pointer for the value
SetNull(p) ==
    /\ proc[p].status = "run"
    /\ BelowMaxWc(p)
    /\ ~WaitsFrom(proc[p].pool, lock, p, 1)
    /\ \E key \in Keys, flags \in {0, EEPROM_MANAGER_SET_NO_CREATE} :
         LET Called(o, done) ==
                 Finish(p, o, NoFault,
                        [NoCall EXCEPT !.op = "set", !.key = key,
                                       !.val = NoData, !.flags = flags],
                        IF done THEN json_object_set(expect, key, <<>>)
                        ELSE expect,
                        FALSE)
             Returned(o) == Called(o, ~o.hung /\ o.r = 0)
         IN Returned(eeprom_manager_set_value(proc[p], dev, lock, p, key,
                                              NoData, flags, NoFault))

ReadValue(p) ==
    /\ proc[p].status = "run"
    /\ ~WaitsFrom(proc[p].pool, lock, p, 1)
    /\ \E key \in Keys :
         Finish(p, eeprom_manager_read_value(proc[p], dev, lock, p, key,
                                             EEPROM_MANAGER_MAX_VALUE_LENGTH),
                NoFault, [NoCall EXCEPT !.op = "get", !.key = key], expect,
                FALSE)

Clear(p) ==
    /\ proc[p].status = "run"
    /\ BelowMaxWc(p)
    /\ ~WaitsFrom(proc[p].pool, lock, p, 1)
    /\ \E fault \in Faults :
         LET Returned(o) ==
                 Finish(p, o, fault, [NoCall EXCEPT !.op = "clear"],
                        IF ~o.hung /\ o.r = 0 THEN EmptyObject ELSE expect,
                        FALSE)
         IN Returned(eeprom_manager_clear(proc[p], dev, lock, p, fault))

Verify(p) ==
    /\ proc[p].status = "run"
    /\ ~WaitsFrom(proc[p].pool, lock, p, 1)
    /\ \E fault \in Faults :
         Finish(p, eeprom_manager_verify(proc[p], dev, lock, p, fault), fault,
                [NoCall EXCEPT !.op = "verify"], expect, FALSE)

RemoveKey(p) ==
    /\ proc[p].status = "run"
    /\ BelowMaxWc(p)
    /\ ~WaitsFrom(proc[p].pool, lock, p, 1)
    /\ \E key \in Keys, fault \in Faults :
         LET Called(o, before) ==
                 Finish(p, o, fault,
                        [NoCall EXCEPT !.op = "remove", !.key = key,
                                       !.before = before.obj],
                        IF ~o.hung /\ o.r = 0 THEN json_object_del(expect, key)
                        ELSE expect,
                        FALSE)
             Returned(o) == Called(o, LoadGood(proc[p]))
         IN Returned(eeprom_manager_remove_key(proc[p], dev, lock, p, key,
                                               fault))

\* the process is gone: the kernel closes its files and drops its locks, a
\* new process takes its place
Gone(p, call) ==
    /\ proc' = [proc EXCEPT ![p] = FreshProcess]
    /\ lock' = [d \in Devices |-> IF lock[d] = p THEN 0 ELSE lock[d]]
    /\ ret' = [call EXCEPT !.p = p]
    /\ expect' = EmptyObject
    /\ nsets' = [nsets EXCEPT ![p] = 0]
    /\ writes' = <<>>
    /\ nexits' = nexits + 1
    /\ inside' = [t \in Threads |-> "none"]
    /\ UNCHANGED rw

\* The process ends: main returns, or it is killed between two calls.
Exit(p) ==
    /\ nexits < MaxExits
    /\ proc[p] # FreshProcess
    /\ Gone(p, [NoCall EXCEPT !.op = "exit"])
    /\ UNCHANGED <<dev, nfaults>>

\* The process is killed, or power is lost, inside eeprom_manager_set_value
\* while a replica is written: the call of read_write_all numbered
\* fault.step on list position fault.idx, and everything after it, never
\* happens.  flags of the call record is the number of data blocks that
\* the interrupted write transfers.
Crash(p) ==
    /\ proc[p].status = "run"
    /\ nexits < MaxExits
    /\ nfaults < MaxFaults
    /\ BelowMaxWc(p)
    /\ ~WaitsFrom(proc[p].pool, lock, p, 1)
    /\ \E key \in Keys, value \in Values, fault \in Faults \ {NoFault} :
         LET Killed(o, before, e) ==
                 /\ o.faulted
                 /\ dev' = o.devs
                 /\ nfaults' = nfaults + 1
                 /\ Gone(p, [NoCall EXCEPT !.op = "crash", !.key = key,
                                           !.val = value, !.at = fault,
                                           !.before = before.obj,
                                           !.flags = BlocksWritten(e)])
             Cut(o) == Killed(o, LoadGood(proc[p]), o.pr.pool[o.pr.good])
         IN Cut(eeprom_manager_set_value(proc[p], dev, lock, p, key, value, 0,
                                         fault))

\* One process at a time uses the pool.
Next ==
    \E p \in {1} :
        \/ Initialize(p)
        \/ SetValue(p)
        \/ ReadValue(p)
        \/ Clear(p)
        \/ Verify(p)
        \/ Exit(p)
        \/ Crash(p)

Spec == Init /\ [][Next]_vars

(***************************************************************************)
(* Two processes share the pool: both replicas start with the empty        *)
(* document at the same write count, no write fails and no process ends.   *)
(* Each process initialises, sets and reads through the facade; a call of  *)
(* one process is enabled when no other process holds a lock it needs.     *)
(***************************************************************************)
Init2P ==
    /\ dev = [d \in Devices |-> Formatted(EmptyObject, 1)]
    /\ Quiet
    /\ nfaults = MaxFaults
    /\ nexits = MaxExits

Next2P ==
    \E p \in Procs :
        \/ Initialize(p)
        \/ SetValue(p)
        \/ ReadValue(p)

Spec2P == Init2P /\ [][Next2P]_vars

(***************************************************************************)
(* Start-up and checking of a pool found in any condition: besides the     *)
(* images above, a device may hold a document of which a byte has changed  *)
(* under an intact footer.  One process initialises, verifies and reads;   *)
(* a write of a repair may fail.                                           *)
(***************************************************************************)
\* a device whose footer is that of Formatted(obj, wc) and whose document
\* has lost a bit in its last byte
BadDocument(obj, wc) ==
    LET Flipped(text) ==
            Written(SubSeq(text, 1, Len(text) - 1) \o <<124>>,
                    get_sha256_string(text), wc)
    IN Flipped(json_dumps(obj))

BootImages == InitImages \cup {BadDocument(ObjAX, 2)}

InitBoot ==
    /\ dev \in [Devices -> BootImages]
    /\ Quiet
    /\ nfaults = 0
    /\ nexits = MaxExits

NextBoot ==
    \E p \in {1} :
        \/ Initialize(p)
        \/ Verify(p)
        \/ ReadValue(p)

SpecBoot == InitBoot /\ [][NextBoot]_vars

(***************************************************************************)
(* One process that also passes a null pointer as the value of a set; no   *)
(* write fails and the process does not end.                               *)
(***************************************************************************)
InitArgs ==
    /\ dev \in [Devices -> InitImages]
    /\ Quiet
    /\ nfaults = MaxFaults
    /\ nexits = MaxExits

NextArgs ==
    \E p \in {1} :
        \/ Initialize(p)
        \/ SetValue(p)
        \/ SetNull(p)
        \/ ReadValue(p)

SpecArgs == InitArgs /\ [][NextArgs]_vars

(***************************************************************************)
(* One process over devices whose document, under an intact footer, may    *)
(* be no JSON text or a JSON array; the process also sets a value that is  *)
(* no UTF-8 text.  No write fails and the process does not end.            *)
(***************************************************************************)
\* "{": no JSON text
BraceText == <<123>>

JsonImages ==
    {Formatted(ObjAX, 2),
     Written(ArrayText, get_sha256_string(ArrayText), 2),
     Written(BraceText, get_sha256_string(BraceText), 2)}

\* set called with a value that json_string refuses
SetInvalid(p) ==
    /\ proc[p].status = "run"
    /\ BelowMaxWc(p)
    /\ ~WaitsFrom(proc[p].pool, lock, p, 1)
    /\ \E key \in Keys, flags \in {0, EEPROM_MANAGER_SET_NO_CREATE} :
         LET Called(o, done) ==
                 Finish(p, o, NoFault,
                        [NoCall EXCEPT !.op = "set", !.key = key,
                                       !.val = <<255>>, !.flags = flags],
                        IF done THEN json_object_set(expect, key, <<255>>)
                        ELSE expect,
                        FALSE)
             Returned(o) == Called(o, ~o.hung /\ o.r = 0)
         IN Returned(eeprom_manager_set_value(proc[p], dev, lock, p, key,
                                              <<255>>, flags, NoFault))

InitJson ==
    /\ dev \in [Devices -> JsonImages]
    /\ Quiet
    /\ nfaults = MaxFaults
    /\ nexits = MaxExits

NextJson ==
    \E p \in {1} :
        \/ Initialize(p)
        \/ SetValue(p)
        \/ SetInvalid(p)
        \/ ReadValue(p)

SpecJson == InitJson /\ [][NextJson]_vars

(***************************************************************************)
(* One process that also shuts the store down and goes on calling.         *)
(* eeprom_manager_cleanup frees the structs of the list and destroys the   *)
(* mutex; first_eeprom, good_eeprom and the flag of eeprom_manager_        *)
(* initialize keep their values.  The process is then "freed": its pool    *)
(* is what the freed structs held.  A call that locks the destroyed mutex  *)
(* and walks the freed list has no defined outcome: pthread_mutex_lock     *)
(* refuses and the call returns -1, or the freed memory still holds the    *)
(* list and the call runs on it, or the process ends.                      *)
(***************************************************************************)
Cleanup(p) ==
    /\ proc[p].status = "run"
    /\ proc' = [proc EXCEPT ![p] =
                  [@ EXCEPT !.mutex = FALSE,
                            !.status = IF is_initialized(proc[p]) THEN "freed"
                                       ELSE @]]
    /\ ret' = [NoCall EXCEPT !.op = "cleanup", !.p = p]
    /\ writes' = <<>>
    /\ UNCHANGED <<dev, lock, expect, nsets, nfaults, nexits, inside, rw>>

\* eeprom_manager_info after the cleanup: first_eeprom is not NULL
InfoFreed(p) ==
    /\ proc[p].status = "freed"
    /\ ret' = [NoCall EXCEPT !.op = "info", !.p = p,
                             !.r = IF is_initialized(proc[p]) THEN 0 ELSE -1]
    /\ writes' = <<>>
    /\ UNCHANGED <<dev, lock, proc, expect, nsets, nfaults, nexits, inside, rw>>

\* eeprom_manager_initialize after the cleanup, in a process whose earlier
\* initialise has returned 0: the flag is set and nothing is done
InitializeFreed(p) ==
    /\ proc[p].status = "freed"
    /\ proc[p].initialized
    /\ ret' = [NoCall EXCEPT !.op = "initialize", !.p = p, !.r = 0]
    /\ writes' = <<>>
    /\ UNCHANGED <<dev, lock, proc, expect, nsets, nfaults, nexits, inside, rw>>

\* eeprom_manager_read_value after the cleanup
ReadFreed(p) ==
    /\ proc[p].status = "freed"
    /\ ~WaitsFrom(proc[p].pool, lock, p, 1)
    /\ \E key \in Keys :
         \/ Finish(p, Returns(proc[p], dev, lock, -1), NoFault,
                   [NoCall EXCEPT !.op = "get", !.key = key], expect, FALSE)
         \/ Finish(p, eeprom_manager_read_value(proc[p], dev, lock, p, key,
                                                EEPROM_MANAGER_MAX_VALUE_LENGTH),
                   NoFault, [NoCall EXCEPT !.op = "get", !.key = key], expect,
                   FALSE)
         \/ /\ nexits < MaxExits
            /\ Gone(p, [NoCall EXCEPT !.op = "crash", !.key = key])
            /\ UNCHANGED <<dev, nfaults>>

InitCleanup ==
    /\ dev \in [Devices -> InitImages]
    /\ Quiet
    /\ nfaults = MaxFaults
    /\ nexits = 0

NextCleanup ==
    \E p \in {1} :
        \/ Initialize(p)
        \/ SetValue(p)
        \/ ReadValue(p)
        \/ Cleanup(p)
        \/ InfoFreed(p)
        \/ InitializeFreed(p)
        \/ ReadFreed(p)

SpecCleanup == InitCleanup /\ [][NextCleanup]_vars

(***************************************************************************)
(* Two processes share the pool as above, and each may also clear it.      *)
(***************************************************************************)
NextShared ==
    \E p \in Procs :
        \/ Initialize(p)
        \/ SetValue(p)
        \/ ReadValue(p)
        \/ Clear(p)

SpecShared == Init2P /\ [][NextShared]_vars

(***************************************************************************)
(* One process sets, removes and reads on a pool of which a replica starts *)
(* blank, with a document of two keys, or with a later document of one     *)
(* key; no write fails and the process does not end.                       *)
(***************************************************************************)
\* {"a":"x","b":"x"}
ObjAB == [k \in Keys |-> <<120>>]

RemoveImages == {Blank, Formatted(ObjAB, 1), Formatted(ObjAX, 2)}

InitRemove ==
    /\ dev \in [Devices -> RemoveImages]
    /\ Quiet
    /\ nfaults = MaxFaults
    /\ nexits = MaxExits

NextRemove ==
    \E p \in {1} :
        \/ Initialize(p)
        \/ SetValue(p)
        \/ RemoveKey(p)
        \/ ReadValue(p)

SpecRemove == InitRemove /\ [][NextRemove]_vars

(***************************************************************************)
(* Two processes, each call taken in steps: it enters (mutex, and the      *)
(* configuration for an initialise), open_eeproms opens and locks one      *)
(* device per step and waits while another process holds the lock, and     *)
(* with every lock taken the rest of the call runs to its return.  status  *)
(* of a process inside a call is "opening" or "locked".                    *)
(***************************************************************************)
\* list position of the first entry that open_eeproms has not opened yet
NextOpen(pool) ==
    CHOOSE i \in 1..Len(pool) :
        pool[i].fd = 0 /\ \A j \in 1..(i - 1) : pool[j].fd # 0

\* the process and the locks as they were when p entered the call in which
\* it now holds every lock
AtEntry(pr) ==
    [pr EXCEPT !.status = "run", !.mutex = FALSE,
               !.pool = [i \in 1..Len(pr.pool) |-> [pr.pool[i] EXCEPT !.fd = 0]]]

Released(lk, p) == [d \in Devices |-> IF lk[d] = p THEN 0 ELSE lk[d]]

Enter(p) ==
    /\ proc[p].status = "run"
    /\ ~proc[p].mutex
    /\ proc[p].initialized \/ proc[p].pool = <<>>
    /\ proc' = [proc EXCEPT ![p] =
                  [(IF @.initialized THEN @ ELSE load_conf_data(@))
                     EXCEPT !.status = "opening", !.mutex = TRUE]]
    /\ UNCHANGED <<dev, lock, ret, expect, nsets, writes, nfaults, nexits, inside,
                 rw>>

Flock(p) ==
    /\ proc[p].status = "opening"
    /\ LET Locked(d, o) ==
               /\ proc' = [proc EXCEPT ![p] =
                             [@ EXCEPT !.pool = o.pool,
                                       !.status = IF d = Len(o.pool)
                                                  THEN "locked" ELSE "opening"]]
               /\ lock' = o.lock
           Opened(d) ==
               /\ lock[proc[p].pool[d].path] = 0
               /\ Locked(d, OpenStep(proc[p].pool, lock, p, d))
       IN Opened(NextOpen(proc[p].pool))
    /\ UNCHANGED <<dev, ret, expect, nsets, writes, nfaults, nexits, inside,
                 rw>>

\* the rest of the call, from the return of open_eeproms to the return of
\* the call: an initialise, a set of a short value, or a get
Body(p) ==
    /\ proc[p].status = "locked"
    /\ \/ /\ ~proc[p].initialized
          /\ Finish(p, eeprom_manager_initialize(FreshProcess, dev,
                                                 Released(lock, p), p, NoFault),
                    NoFault, [NoCall EXCEPT !.op = "initialize"], expect, FALSE)
       \/ /\ proc[p].initialized
          /\ BelowMaxWc(p)
          /\ \E key \in Keys :
               LET Called(o, done) ==
                       Finish(p, o, NoFault,
                              [NoCall EXCEPT !.op = "set", !.key = key,
                                             !.val = <<120>>],
                              IF done THEN json_object_set(expect, key, <<120>>)
                              ELSE expect,
                              FALSE)
                   Returned(o) == Called(o, ~o.hung /\ o.r = 0)
               IN Returned(eeprom_manager_set_value(AtEntry(proc[p]), dev,
                                                    Released(lock, p), p, key,
                                                    <<120>>, 0, NoFault))
       \/ /\ proc[p].initialized
          /\ \E key \in Keys :
               Finish(p, eeprom_manager_read_value(AtEntry(proc[p]), dev,
                                                   Released(lock, p), p, key,
                                                   EEPROM_MANAGER_MAX_VALUE_LENGTH),
                      NoFault, [NoCall EXCEPT !.op = "get", !.key = key],
                      expect, FALSE)

NextLocks ==
    \E p \in Procs :
        \/ Enter(p)
        \/ Flock(p)
        \/ Body(p)

SpecLocks == Init2P /\ [][NextLocks]_vars

(***************************************************************************)
(* The same steps, with opens that fail: open(2) of the next device        *)
(* returns an error, open_eeproms returns -1 and the call returns it.      *)
(***************************************************************************)
\* open_eeproms returns -1 at list position NextOpen, and the caller
\* returns that value
OpenFails(p) ==
    /\ proc[p].status = "opening"
    /\ nfaults < MaxFaults
    /\ LET Failed(d, o) ==
               /\ proc' = [proc EXCEPT ![p] =
                             [@ EXCEPT !.pool = o.pool, !.status = "run"]]
               /\ lock' = o.lock
               /\ ret' = [NoCall EXCEPT !.op = "open", !.p = p, !.r = o.r,
                                        !.at = [idx |-> d, step |-> 0]]
       IN Failed(NextOpen(proc[p].pool),
                 OpenFrom(proc[p].pool, lock, p, NextOpen(proc[p].pool),
                          NextOpen(proc[p].pool)))
    /\ nfaults' = nfaults + 1
    /\ writes' = <<>>
    /\ UNCHANGED <<dev, expect, nsets, nexits, inside,
                 rw>>

\* a call of a thread that still holds the mutex: pthread_mutex_lock
\* never returns
Relock(p) ==
    /\ proc[p].status = "run"
    /\ proc[p].mutex
    /\ proc' = [proc EXCEPT ![p].status = "hung"]
    /\ ret' = [NoCall EXCEPT !.op = "get", !.p = p, !.hung = TRUE]
    /\ writes' = <<>>
    /\ UNCHANGED <<dev, lock, expect, nsets, nfaults, nexits, inside,
                 rw>>

InitOpen ==
    /\ dev = [d \in Devices |-> Formatted(EmptyObject, 1)]
    /\ Quiet
    /\ nfaults = 0
    /\ nexits = MaxExits

NextOpenFails ==
    \E p \in Procs :
        \/ Enter(p)
        \/ Flock(p)
        \/ OpenFails(p)
        \/ Body(p)
        \/ Relock(p)

SpecOpen == InitOpen /\ [][NextOpenFails]_vars

(***************************************************************************)
(* Replica I/O on its own.  Process 1 writes a document with a counter to  *)
(* a device through write_eeprom, starting from the struct eeprom that     *)
(* load_conf_data makes; process 2 then reads that device through          *)
(* verify_eeprom into its own struct.  The devices start with any of the   *)
(* prior contents below, and each is written once.                         *)
(***************************************************************************)
\* the bytes of the blocks of e in front of its footer block
DataBlocks(e) == e.bs * (e.count - 1)

\* the document {"a":"x...x"} of n bytes
Packed(n) ==
    LET Filled(m) == SubSeq([i \in 1..m |-> 120], 1, m)
    IN json_dumps([k \in {<<97>>} |-> Filled(n - Len(json_dumps(ObjAX)) + 1)])

\* a device fresh from the factory: every byte 0xFF
Erased == SubSeq([i \in 1..(BlockSize * BlockCount) |-> 255], 1,
                 BlockSize * BlockCount)

\* documents that end in the first block, one byte short of the end of the
\* data blocks, at the end of the data blocks, and one byte past them
Documents ==
    {json_dumps(EmptyObject), json_dumps(ObjAX),
     Packed(BlockSize * (BlockCount - 1) - 1),
     Packed(BlockSize * (BlockCount - 1)),
     Packed(BlockSize * (BlockCount - 1) + 1)}

\* what the device may hold before the write
PriorImages ==
    {Blank, Erased, Formatted(ObjAX, 2),
     Written(Packed(BlockSize * (BlockCount - 1)),
             get_sha256_string(Packed(BlockSize * (BlockCount - 1))), 2)}

\* write_eeprom of a document with a counter on list entry d, once for
\* each entry
WriteDocument(d) ==
    /\ proc[1].pool[d].data = NoData
    /\ \E text \in Documents, wc \in 0..(MaxWc - 1) :
         LET Wrote(w) ==
                 /\ dev' = [dev EXCEPT ![w.e.path] = w.image]
                 /\ proc' = [proc EXCEPT ![1].pool[d] = w.e]
                 /\ writes' = w.log
                 /\ ret' = [NoCall EXCEPT !.op = "write", !.p = 1,
                                          !.val = text, !.r = w.r]
             Filled(e) == Wrote(write_eeprom(e, dev[e.path], 0))
         IN Filled([load_conf_data(FreshProcess).pool[d]
                      EXCEPT !.data = text, !.wc = wc])
    /\ UNCHANGED <<lock, expect, nsets, nfaults, nexits, inside,
                 rw>>

\* verify_eeprom of the device that has just been written, into the struct
\* of process 2
ReadDocument(d) ==
    /\ ret.op = "write"
    /\ writes # <<>>
    /\ proc[2].pool[d].path = writes[1].path
    /\ LET Read(v) ==
               /\ proc' = [proc EXCEPT ![2].pool[d] = v.e]
               /\ ret' = [ret EXCEPT !.op = "read", !.p = 2, !.r = v.r]
       IN Read(verify_eeprom(load_conf_data(FreshProcess).pool[d],
                             dev[proc[2].pool[d].path]))
    /\ UNCHANGED <<dev, lock, expect, nsets, writes, nfaults, nexits, inside,
                 rw>>

InitIo ==
    /\ dev \in [Devices -> PriorImages]
    /\ lock = [d \in Devices |-> 0]
    /\ proc = [p \in Procs |-> load_conf_data(FreshProcess)]
    /\ ret = NoCall
    /\ expect = EmptyObject
    /\ nsets = [p \in Procs |-> 0]
    /\ writes = <<>>
    /\ inside = [t \in Threads |-> "none"]
    /\ rw = NoTransfer
    /\ nfaults = MaxFaults
    /\ nexits = MaxExits

NextIo ==
    \E d \in 1..Len(Conf) :
        \/ WriteDocument(d)
        \/ ReadDocument(d)

SpecIo == InitIo /\ [][NextIo]_vars

\* read_write_eeprom(device, 'r') of the device that has just been written,
\* into the struct of process 2: the return value is kept in ret.r
ReadBack(d) ==
    /\ ret.op = "write"
    /\ writes # <<>>
    /\ proc[2].pool[d].path = writes[1].path
    /\ LET Read(rd) ==
               /\ proc' = [proc EXCEPT ![2].pool[d] = rd.e]
               /\ ret' = [ret EXCEPT !.op = "readback", !.p = 2, !.r = rd.r]
       IN Read(ReadEeprom(dev[proc[2].pool[d].path],
                          load_conf_data(FreshProcess).pool[d]))
    /\ UNCHANGED <<dev, lock, expect, nsets, writes, nfaults, nexits, inside,
                 rw>>

NextRead ==
    \E d \in 1..Len(Conf) :
        \/ WriteDocument(d)
        \/ ReadBack(d)

SpecRead == InitIo /\ [][NextRead]_vars

(***************************************************************************)
(* Block I/O on its own: one call of read_write_all, taken system call by  *)
(* system call.  A read or write transfers any number of the bytes that    *)
(* are left, none included, or fails; a failure is an interruption by a    *)
(* signal (EINTR) or a full device (ENOSPC).                               *)
(***************************************************************************)
\* read_write_all(device, op, buf, count) is called: the argument check
ReadWriteAll ==
    /\ rw.pc \in {"idle", "done"}
    /\ \E op \in {"r", "w"}, count \in 1..MaxBytes, fd \in {0, 1} :
         rw' = IF fd = 0
               THEN [NoTransfer EXCEPT !.pc = "done", !.op = op,
                                       !.count = count, !.r = -1,
                                       !.errno = "EINVAL"]
               ELSE [NoTransfer EXCEPT !.pc = "loop", !.op = op,
                                       !.count = count]
    /\ UNCHANGED <<dev, lock, proc, ret, expect, nsets, writes, nfaults,
                   nexits, inside>>

\* one pass of the loop: the system call returns r, and the function goes
\* round again or leaves the loop and returns
Transfer ==
    /\ rw.pc = "loop"
    /\ \E r \in 0..(rw.count - rw.ret) :
         LET Left(got, tries) ==
                 [rw EXCEPT !.pc = "done", !.ret = got, !.attempts = tries,
                            !.r = IF tries >= EEPROM_MANAGER_MAX_RW_ATTEMPTS
                                  THEN -1 ELSE got,
                            !.errno = IF tries >= EEPROM_MANAGER_MAX_RW_ATTEMPTS
                                      THEN "EIO" ELSE "none"]
             Added(got, tries) ==
                 IF tries > EEPROM_MANAGER_MAX_RW_ATTEMPTS \/ got >= rw.count
                 THEN Left(got, tries)
                 ELSE [rw EXCEPT !.ret = got, !.attempts = tries]
         IN rw' = Added(rw.ret + r, rw.attempts + 1)
    /\ UNCHANGED <<dev, lock, proc, ret, expect, nsets, writes, nfaults,
                   nexits, inside>>

\* the system call returns -1
TransferFails ==
    /\ rw.pc = "loop"
    /\ \E errno \in {"EINTR", "ENOSPC"} :
         rw' = [rw EXCEPT !.pc = "done", !.r = -1, !.errno = errno]
    /\ UNCHANGED <<dev, lock, proc, ret, expect, nsets, writes, nfaults,
                   nexits, inside>>

NextRw ==
    \/ ReadWriteAll
    \/ Transfer
    \/ TransferFails

SpecRw == Init2P /\ [][NextRw]_vars

(***************************************************************************)
(* One process with two threads, each call taken in two steps: the thread  *)
(* gets inside the body (for the calls that lock the mutex: once it has    *)
(* the mutex), and the body runs to the return.  Bodies that are inside    *)
(* together race on the list; the outcome is that of the bodies one after  *)
(* the other, or the end of the process.                                   *)
(***************************************************************************)
\* the calls that take eeprom_mutex before they touch the list
Locking == {"set", "get"}

\* thread t calls op and gets inside its body
Begin(t) ==
    /\ proc[1].status = "run"
    /\ inside[t] = "none"
    /\ \E op \in Locking \cup {"initialize", "cleanup", "info"} :
         /\ op \in Locking => is_initialized(proc[1]) /\ ~proc[1].mutex
         \* pthread_mutex_init on a mutex that is locked either leaves it
         \* locked, and the thread waits, or makes it a new, free mutex
         /\ op = "initialize" => ~proc[1].initialized
         /\ inside' = [inside EXCEPT ![t] = op]
         /\ proc' = [proc EXCEPT ![1].mutex =
                       IF op \in Locking \cup {"initialize"} THEN TRUE ELSE @]
    /\ UNCHANGED <<dev, lock, ret, expect, nsets, writes, nfaults, nexits, rw>>

\* the body of the call of thread t runs to its return
End(t) ==
    /\ proc[1].status = "run"
    /\ inside[t] # "none"
    /\ inside' = [inside EXCEPT ![t] = "none"]
    /\ \/ /\ inside[t] = "initialize"
          /\ Outcome(1, eeprom_manager_initialize(
                           [proc[1] EXCEPT !.mutex = FALSE], dev, lock, 1,
                           NoFault),
                     NoFault, [NoCall EXCEPT !.op = "initialize"], expect, FALSE)
       \/ /\ inside[t] = "set"
          /\ BelowMaxWc(1)
          /\ \E key \in Keys :
               LET Called(o, done) ==
                       Outcome(1, o, NoFault,
                               [NoCall EXCEPT !.op = "set", !.key = key,
                                              !.val = <<120>>],
                               IF done THEN json_object_set(expect, key, <<120>>)
                               ELSE expect,
                               FALSE)
                   Returned(o) == Called(o, ~o.hung /\ o.r = 0)
               IN Returned(eeprom_manager_set_value(
                              [proc[1] EXCEPT !.mutex = FALSE], dev, lock, 1,
                              key, <<120>>, 0, NoFault))
       \/ /\ inside[t] = "get"
          /\ \E key \in Keys :
               Outcome(1, eeprom_manager_read_value(
                             [proc[1] EXCEPT !.mutex = FALSE], dev, lock, 1, key,
                             EEPROM_MANAGER_MAX_VALUE_LENGTH),
                       NoFault, [NoCall EXCEPT !.op = "get", !.key = key],
                       expect, FALSE)
       \/ /\ inside[t] = "info"
          /\ ret' = [NoCall EXCEPT !.p = 1, !.op = "info",
                                   !.r = IF is_initialized(proc[1]) THEN 0
                                         ELSE -1]
          /\ writes' = <<>>
          /\ UNCHANGED <<dev, lock, proc, expect, nsets, nfaults, nexits, rw>>
       \* eeprom_manager_cleanup frees the structs of the list and destroys
       \* the mutex; nothing is called in this process afterwards
       \/ /\ inside[t] = "cleanup"
          /\ proc' = [proc EXCEPT ![1].status = "freed", ![1].mutex = FALSE]
          /\ ret' = [NoCall EXCEPT !.p = 1, !.op = "cleanup"]
          /\ writes' = <<>>
          /\ UNCHANGED <<dev, lock, expect, nsets, nfaults, nexits, rw>>

\* two bodies are inside together and the process ends in their race
Race ==
    /\ nexits < MaxExits
    /\ \E t, u \in Threads : t # u /\ inside[t] # "none" /\ inside[u] # "none"
    /\ Gone(1, [NoCall EXCEPT !.op = "crash"])
    /\ UNCHANGED <<dev, nfaults>>

InitThreads ==
    /\ dev \in [Devices -> {Formatted(EmptyObject, 1), Formatted(ObjAX, 2)}]
    /\ Quiet
    /\ nfaults = MaxFaults
    /\ nexits = 0

NextThreads ==
    \/ \E t \in Threads : Begin(t) \/ End(t)
    \/ Race

SpecThreads == InitThreads /\ [][NextThreads]_vars

(***************************************************************************)
(* What a reader finds on the devices.                                     *)
(***************************************************************************)
\* the structs eeprom of a process that has just loaded the configuration
ConfPool == load_conf_data(FreshProcess).pool

\* The bytes image of device d as read_write_eeprom(., 'r') of a new
\* process reads them: the footer fields, the document, and whether
\* verify_eeprom accepts it
StoredIn(image, d) ==
    LET Seen(rd) ==
            [magic  |-> rd.r # EEPROM_MANAGER_ERROR_METADATA_BAD_MAGIC,
             sha256 |-> rd.e.sha256,
             wc     |-> rd.e.wc,
             data   |-> rd.e.data,
             ok     |-> rd.r >= 0
                        /\ get_sha256_string(rd.e.data) = rd.e.sha256]
    IN Seen(ReadEeprom(image, ConfPool[d]))

Stored(d) == StoredIn(dev[d], d)

\* the last call returned to its caller
Returned(ops) == ret.op \in ops /\ ~ret.hung

(***************************************************************************)
(* Replication.                                                            *)
(***************************************************************************)
\* C1: after a set or clear that returned 0, with no I/O fault in the run,
\* every replica carries on device the same digest and the same counter,
\* and the digest is the digest of the document on that replica, wherever
\* the authoritative replica is in the pool.
C1_ReplicationAfterWrite ==
    (Returned({"set", "clear"}) /\ ret.r = 0 /\ nfaults = 0) =>
        \A d \in Devices :
            /\ Stored(d).ok
            /\ Stored(d).sha256 = Stored(1).sha256
            /\ Stored(d).wc = Stored(1).wc

\* A set of a short value has returned 0 in a process whose authoritative
\* replica is the second pool entry, and the first entry is one write
\* behind it.
C1_SecondEntryAuthoritative ==
    /\ Returned({"set"}) /\ ret.r = 0 /\ nfaults = 0
    /\ ret.val # BigValue
    /\ proc[ret.p].good = 2
    /\ \A d \in Devices : Stored(d).ok
    /\ Stored(1).wc + 1 = Stored(2).wc

(***************************************************************************)
(* Round trip.                                                             *)
(***************************************************************************)
\* C2: within one process a get(k) made after a set(k, v) that returned 0
\* returns v, as long as no later set of k and no clear has returned 0;
\* sets of other keys do not change it.
C2_RoundTrip ==
    (ret.op = "get" /\ ret.key \in DOMAIN expect) =>
        /\ ~ret.hung
        /\ ret.r = 0
        /\ ret.out = expect[ret.key]

\* A get of a key that was set blocks for ever in pthread_mutex_lock: an
\* earlier call of the process returned an error and kept the mutex.
C2_GetBlocksAfterError ==
    /\ ret.op = "get" /\ ret.key \in DOMAIN expect
    /\ ret.hung
    /\ proc[ret.p].mutex
    /\ nfaults = 0

(***************************************************************************)
(* What set returns.                                                       *)
(***************************************************************************)
\* the authoritative replica of the caller of the last call
Authoritative == proc[ret.p].pool[proc[ret.p].good]

\* C3: when set returns 0, every replica carries on device the digest and
\* the counter of the new document; when the write to a replica fails, set
\* returns an error and not 0.
C3_SetAllOrError ==
    /\ (Returned({"set"}) /\ ret.r = 0) =>
          \A d \in Devices :
              /\ Stored(d).magic
              /\ Stored(d).sha256 = Authoritative.sha256
              /\ Stored(d).wc = Authoritative.wc
    /\ (Returned({"set"}) /\ ret.at # NoFault) => ret.r < 0

\* set has returned 0 although a call of read_write_all failed while the
\* authoritative replica was written: that replica has lost its footer
C3_ZeroAfterFailedWrite ==
    /\ Returned({"set"}) /\ ret.r = 0
    /\ ret.at.idx = proc[ret.p].good
    /\ ~Stored(ret.at.idx).magic

(***************************************************************************)
(* What a call holds when it returns.                                      *)
(***************************************************************************)
Facade == {"initialize", "set", "get", "clear", "verify"}

\* process p holds the mutex, a lock on a replica, or an open replica
Holds(p) ==
    \/ proc[p].mutex
    \/ \E d \in Devices : lock[d] = p
    \/ \E i \in 1..Len(proc[p].pool) : proc[p].pool[i].fd # 0

\* C4: when a call of the facade returns, with 0 or with any error, its
\* process holds neither the mutex nor a lock or open handle on a replica.
C4_ReleasedOnReturn == Returned(Facade) => ~Holds(ret.p)

\* set with EEPROM_MANAGER_SET_NO_CREATE on an absent key has returned its
\* error and the process still holds the mutex and the lock of every replica
C4_ErrorReturnKeepsLocks ==
    /\ Returned({"set"})
    /\ ret.r = EEPROM_MANAGER_ERROR_WRITE_KEY_NOT_FOUND
    /\ proc[ret.p].mutex
    /\ \A d \in Devices : lock[d] = ret.p

(***************************************************************************)
(* Capacity.                                                               *)
(***************************************************************************)
\* the bytes of a footer: magic, digest in hexadecimal, counter digits
FooterLen == 5 + SHA256_DIGEST_LENGTH * 2 + 10

\* the pool capacity of process p: the size of its smallest replica less
\* the footer
Capacity(p) == proc[p].eeprom_data_size - FooterLen

\* the document that set(key, value) of process p has to store
NewDocument(p, key, value) ==
    json_dumps(json_object_set(LoadGood(proc[p]).obj, key, value))

\* process p is initialised, holds a document that parses and is not inside
\* a call that it left with an error
Usable(p) ==
    /\ proc[p].initialized /\ ~proc[p].mutex
    /\ \A d \in Devices : lock[d] # p
    /\ LoadGood(proc[p]).kind = "object"

\* the first byte of the footer block of device d
FooterStart(d) == Len(dev[d]) - ConfPool[d].bs

\* C8: a set whose serialised object is longer than the pool capacity fails
\* with WRITE_JSON_TOO_LONG and changes no device; and after a set that
\* returned 0 no replica holds document bytes in its footer block.
C8_CapacityEnforced ==
    [][ /\ ( /\ ret'.op = "set" /\ ~ret'.hung
              /\ Usable(ret'.p)
              /\ Len(NewDocument(ret'.p, ret'.key, ret'.val)) > Capacity(ret'.p)
              /\ ~(ret'.flags = EEPROM_MANAGER_SET_NO_CREATE
                     /\ ret'.key \notin DOMAIN LoadGood(proc[ret'.p]).obj) )
            => (ret'.r = EEPROM_MANAGER_ERROR_WRITE_JSON_TOO_LONG /\ dev' = dev)
        /\ (ret'.op = "set" /\ ~ret'.hung /\ ret'.r = 0 /\ ret'.at = NoFault)
            => \A d \in Devices :
                   Len(Authoritative.data)' <= FooterStart(d)'
      ]_vars

\* A set has returned 0 for a document that is longer than the capacity:
\* its bytes past the data blocks went into the footer block and the footer
\* was written over them, so the replicas no longer verify.
C8_DocumentInFooterBlock ==
    /\ Returned({"set"}) /\ ret.r = 0 /\ ret.at = NoFault
    /\ Len(Authoritative.data) > Capacity(ret.p)
    /\ \A d \in Devices : Stored(d).magic /\ ~Stored(d).ok

(***************************************************************************)
(* Counters.                                                               *)
(***************************************************************************)
\* C9: every write of the document to a replica that went through stored a
\* footer counter strictly greater than the counter that the replica's
\* footer held before that write.
C9_MonotonicCounter ==
    \A i \in 1..Len(writes) :
        writes[i].old.magic => writes[i].new.wc > writes[i].old.wc

\* A set that changed the document has rewritten the first replica, which
\* held a valid footer and is not the authoritative one, with the counter
\* that was in its footer before.
C9_CloneKeepsCounter ==
    /\ Returned({"set"}) /\ ret.r = 0 /\ ret.changed /\ nfaults = 0
    /\ proc[ret.p].good = 2
    /\ \E i \in 1..Len(writes) :
          /\ writes[i].path = 1
          /\ writes[i].old.magic
          /\ writes[i].new.wc = writes[i].old.wc

\* how far the last call advanced the counter of device d: the writes that
\* went through, from the footer before the first to the footer after the
\* last
Advanced(d) ==
    LET W == {i \in 1..Len(writes) : writes[i].path = d}
    IN IF W = {} THEN 0
       ELSE writes[CHOOSE i \in W : \A j \in W : j <= i].new.wc
            - writes[CHOOSE i \in W : \A j \in W : i <= j].old.wc

\* C10: when set(k, v) changes the document and is called again with the
\* same k and v, the two calls together advance the counter of every
\* replica by exactly one, and the second call advances no counter.
C10_NoOpStability ==
    [][ ( /\ Returned({"set"}) /\ ret.r = 0 /\ ret.changed /\ ret.at = NoFault
          /\ ret'.op = "set" /\ ~ret'.hung /\ ret'.r = 0 /\ ret'.at = NoFault
          /\ ret'.p = ret.p /\ ret'.key = ret.key /\ ret'.val = ret.val )
        => \A d \in Devices :
               /\ Advanced(d) + Advanced(d)' = 1
               /\ Advanced(d)' = 0
               /\ StoredIn(dev'[d], d).wc = Stored(d).wc
      ]_vars

\* The second of two equal sets has advanced the counter of the first
\* replica by one, the authoritative replica being the second pool entry.
C10_SecondSetAdvances ==
    /\ Returned({"set"}) /\ ret.r = 0 /\ ~ret.changed /\ nfaults = 0
    /\ proc[ret.p].good = 2
    /\ Advanced(1) = 1
    /\ Advanced(2) = 0

(***************************************************************************)
(* Recovery after an interrupted write.                                    *)
(***************************************************************************)
\* the last call was cut short by a crash after the data blocks of the
\* replica at list position ret.at.idx and before its footer
Torn == ret.op = "crash" /\ ret.at.step = ret.flags + 2

\* the document that the interrupted set was storing
InFlight == json_object_set(ret.before, ret.key, ret.val)

\* C5: after a crash between the data blocks and the footer of replica r,
\* the next initialise does not choose r, chooses another replica that
\* verifies if there is one, rewrites r from it, and the document of the
\* last set that completed on all replicas can be read (or the document of
\* the interrupted set, when that one had reached a replica in full).
C5_TornWriteRecovery ==
    [][ \A r \in Devices :
          (Torn /\ ret.at.idx = r /\ ret'.op = "initialize" /\ ~ret'.hung) =>
            /\ proc'[ret'.p].good # r
            /\ (\E d \in Devices \ {r} : Stored(d).ok) =>
                  /\ ret'.r = 0
                  /\ StoredIn(dev'[r], r).ok
                  /\ StoredIn(dev'[r], r).data = Authoritative'.data
            /\ ret'.r = 0
            /\ LoadGood(proc'[ret'.p]).obj \in {ret.before, InFlight}
      ]_vars

\* The set before the crash had stored, and returned 0 for, a document
\* longer than the capacity; the crash then tore the only other replica,
\* and initialise finds no good device.
C5_NothingToRecover ==
    /\ Returned({"initialize"})
    /\ ret.r = EEPROM_MANAGER_ERROR_NO_GOOD_DEVICES_FOUND
    /\ nexits = 1 /\ nfaults = 1
    /\ \E d \in Devices : ~Stored(d).magic
    /\ \E d \in Devices : Stored(d).magic /\ ~Stored(d).ok
                            /\ Len(Stored(d).data) > Capacity(ret.p)

(***************************************************************************)
(* Two processes                                                           *)
(***************************************************************************)
\* both processes have initialised and neither is stuck inside a call
BothInitialized ==
    \A p \in Procs : proc[p].initialized /\ proc[p].status = "run"

\* C6: with two initialised processes, a get that returns after the sets of
\* both processes returns the value those sets produced: the value last set
\* under the key with result 0, or key-not-found when the key was never set.
C6_CrossProcessVisibility ==
    (BothInitialized /\ ret.op = "get" /\ ~ret.hung) =>
        IF ret.key \in DOMAIN expect
        THEN ret.r = 0 /\ ret.out = expect[ret.key]
        ELSE ret.r = EEPROM_MANAGER_ERROR_JSON_READ_KEY_NOT_FOUND

\* C6 (case): a get of one process misses a key that a set of the other
\* process has stored on every replica
C6_StaleGet ==
    /\ BothInitialized
    /\ ret.op = "get" /\ ~ret.hung
    /\ ret.r = EEPROM_MANAGER_ERROR_JSON_READ_KEY_NOT_FOUND
    /\ nsets[ret.p] = 0
    /\ \E q \in Procs \ {ret.p} : nsets[q] > 0
    /\ \A d \in Devices :
         /\ Stored(d).ok
         /\ ret.key \in DOMAIN json_loads(Stored(d).data).obj

\* C7: when both processes have each completed n document-changing sets
\* (of documents within the pool capacity), every replica's counter has
\* advanced by 2n from the initial count, every replica verifies and holds
\* the document with all the sets applied.
C7_NoLostUpdate ==
    (/\ BothInitialized /\ nsets[1] = nsets[2] /\ nsets[1] >= 1
     /\ \A p \in Procs : Len(json_dumps(expect)) <= Capacity(p)
                          /\ Len(proc[p].pool[proc[p].good].data) <= Capacity(p)) =>
        \A d \in Devices :
            /\ Stored(d).ok
            /\ Stored(d).wc = 1 + 2 * nsets[1]
            /\ json_loads(Stored(d).data).obj = expect

\* C7 (case): both processes set a different key once and the replicas hold
\* only one of the two keys
C7_UpdateLost ==
    /\ BothInitialized
    /\ nsets[1] = 1 /\ nsets[2] = 1
    /\ DOMAIN expect = Keys
    /\ \A d \in Devices :
         /\ Stored(d).ok
         /\ DOMAIN json_loads(Stored(d).data).obj # Keys

(***************************************************************************)
(* Replicas without magic.                                                 *)
(***************************************************************************)
\* the device file of good_eeprom in the process state pr
GoodPath(pr) == pr.pool[pr.good].path

\* C11: a replica whose footer does not start with the magic is not chosen
\* as the authoritative replica by initialise; and after the next
\* initialise, set or clear that returns 0 (with no I/O fault in the call)
\* it carries the magic and the digest, counter and document that the
\* authoritative replica carries.
C11_BadMagicIsolation ==
    [][ \A d \in Devices :
          ( /\ ~Stored(d).magic
            /\ ret'.op \in {"initialize", "set", "clear"}
            /\ ~ret'.hung /\ ret'.r = 0 /\ ret'.at = NoFault
            /\ ret'.op = "initialize" => ~proc[ret'.p].initialized )
          =>
          /\ ret'.op = "initialize" => GoodPath(proc'[ret'.p]) # d
          /\ StoredIn(dev'[d], d).magic
          /\ \A a \in Devices :
               a = GoodPath(proc'[ret'.p]) =>
                 /\ StoredIn(dev'[d], d).sha256 = StoredIn(dev'[a], a).sha256
                 /\ StoredIn(dev'[d], d).wc = StoredIn(dev'[a], a).wc
                 /\ StoredIn(dev'[d], d).data = StoredIn(dev'[a], a).data
      ]_vars

\* A set made without an I/O fault has returned 0, the authoritative replica
\* is the first pool entry and has no magic on its device: an earlier set of
\* the same document was cut short there, and this one skipped the write.
C11_TornReplicaSkipped ==
    /\ Returned({"set"}) /\ ret.r = 0 /\ ret.at = NoFault
    /\ proc[ret.p].good = 1
    /\ ~Stored(1).magic
    /\ Stored(2).ok
    /\ Stored(2).sha256 = Authoritative.sha256

(***************************************************************************)
(* What initialise finds.                                                  *)
(***************************************************************************)
\* C12: an initialise (of a process not yet initialised, with no I/O fault)
\* returns NO_GOOD_DEVICES_FOUND only when no replica verifies; when at
\* least one replica verifies it returns 0, also when a replica with a
\* higher counter fails its digest check.
C12_NoGoodOnlyWhenNoneVerifies ==
    [][ ( /\ ret'.op = "initialize" /\ ~ret'.hung /\ ret'.at = NoFault
          /\ ~proc[ret'.p].initialized )
        =>
        /\ ret'.r = EEPROM_MANAGER_ERROR_NO_GOOD_DEVICES_FOUND
             => \A d \in Devices : ~Stored(d).ok
        /\ (\E d \in Devices : Stored(d).ok) => ret'.r = 0
      ]_vars

\* initialise has returned NO_GOOD_DEVICES_FOUND although a replica
\* verifies: the replica with the higher counter fails its digest check
C12_LowerCounterNotTried ==
    /\ Returned({"initialize"})
    /\ ret.r = EEPROM_MANAGER_ERROR_NO_GOOD_DEVICES_FOUND
    /\ \E d, e \in Devices :
         /\ Stored(d).ok
         /\ Stored(e).magic /\ ~Stored(e).ok
         /\ Stored(e).wc > Stored(d).wc

(***************************************************************************)
(* Bring-up on blank devices.                                              *)
(***************************************************************************)
\* no replica carries the magic
AllBlank == \A d \in Devices : ~Stored(d).magic

\* C13: when no replica carries the magic, initialise returns
\* NO_GOOD_DEVICES_FOUND; a clear called next in the same process returns
\* 0 and leaves the empty object with a valid footer on every replica; an
\* initialise called after that clear returns 0 and a get called after it
\* returns key-not-found.
C13_BringUp ==
    [][ /\ ( /\ AllBlank
             /\ ret'.op = "initialize" /\ ~ret'.hung /\ ret'.at = NoFault
             /\ ~proc[ret'.p].initialized /\ proc[ret'.p] = FreshProcess )
           => ret'.r = EEPROM_MANAGER_ERROR_NO_GOOD_DEVICES_FOUND
        /\ ( /\ AllBlank
             /\ ret.op = "initialize" /\ ~ret.hung
             /\ ret.r = EEPROM_MANAGER_ERROR_NO_GOOD_DEVICES_FOUND
             /\ ret'.op = "clear" /\ ret'.p = ret.p /\ ret'.at = NoFault )
           => /\ ~ret'.hung
              /\ ret'.r = 0
              /\ \A d \in Devices :
                   /\ StoredIn(dev'[d], d).ok
                   /\ StoredIn(dev'[d], d).data = json_dumps(EmptyObject)
        /\ ( /\ ret.op = "clear" /\ ~ret.hung /\ ret.r = 0
             /\ ret'.p = ret.p )
           => /\ ret'.op = "initialize" => ~ret'.hung /\ ret'.r = 0
              /\ ret'.op = "get" =>
                   /\ ~ret'.hung
                   /\ ret'.r = EEPROM_MANAGER_ERROR_JSON_READ_KEY_NOT_FOUND
      ]_vars

\* On blank devices initialise has returned NO_GOOD_DEVICES_FOUND with the
\* mutex still locked, and the clear called next blocks for ever on it.
C13_ClearBlocksOnMutex ==
    /\ AllBlank
    /\ ret.op = "clear" /\ ret.hung
    /\ ~proc[ret.p].initialized
    /\ proc[ret.p].mutex
    /\ proc[ret.p].good = 0

(***************************************************************************)
(* The pool after initialise.                                              *)
(***************************************************************************)
\* C14: after an initialise that returned 0, every replica holds a document
\* that matches its stored digest, and its digest and counter are those of
\* the authoritative replica, whatever the devices held before.
C14_ReplicatedAfterInitialize ==
    (Returned({"initialize"}) /\ ret.r = 0) =>
        \A d \in Devices :
            /\ Stored(d).ok
            /\ Stored(d).sha256 = Authoritative.sha256
            /\ Stored(d).wc = Authoritative.wc

\* initialise has returned 0 and a replica whose footer equals that of the
\* authoritative replica holds a document that does not match its digest
C14_CorruptDocumentKept ==
    /\ Returned({"initialize"}) /\ ret.r = 0
    /\ writes = <<>>
    /\ \E d \in Devices :
         /\ Stored(d).magic /\ ~Stored(d).ok
         /\ Stored(d).sha256 = Authoritative.sha256
         /\ Stored(d).wc = Authoritative.wc

\* C15: when both replicas hold the same counter and the same document and
\* the stored digest of the first replica (replica 0) is not the digest of
\* its document, an initialise without I/O fault returns 0, chooses the
\* second replica, rewrites the first from it so that it verifies, and
\* writes nothing to the second replica.
C15_AsymmetricFailure ==
    [][ ( /\ Stored(1).magic /\ ~Stored(1).ok
          /\ Stored(2).ok
          /\ Stored(1).wc = Stored(2).wc
          /\ Stored(1).data = Stored(2).data
          /\ ret'.op = "initialize" /\ ~ret'.hung /\ ret'.at = NoFault
          /\ proc[ret'.p] = FreshProcess )
        =>
        /\ ret'.r = 0
        /\ GoodPath(proc'[ret'.p]) = 2
        /\ StoredIn(dev'[1], 1).ok
        /\ StoredIn(dev'[1], 1).sha256 = Stored(2).sha256
        /\ StoredIn(dev'[1], 1).data = Stored(2).data
        /\ dev'[2] = dev[2]
        /\ \A i \in 1..Len(writes') : writes'[i].path = 1
      ]_vars

\* initialise has chosen the second replica and has rewritten the first,
\* which had the magic and the same counter: its digest was the difference
C15_FirstReplicaRewritten ==
    /\ Returned({"initialize"}) /\ ret.r = 0
    /\ proc[ret.p].good = 2
    /\ Len(writes) = 1
    /\ writes[1].path = 1
    /\ writes[1].old.magic
    /\ writes[1].old.wc = Authoritative.wc
    /\ \A d \in Devices : Stored(d).ok

\* C16: when a replica verifies and another replica that verifies carries a
\* lower counter, an initialise without I/O fault returns 0, chooses the
\* replica with the higher counter and rewrites the stale one with its
\* document; a verify called right after such an initialise returns 1.
C16_StaleReplicaRecovery ==
    [][ /\ \A hi, lo \in Devices :
             ( /\ Stored(hi).ok /\ Stored(lo).ok
               /\ Stored(lo).wc < Stored(hi).wc
               /\ ret'.op = "initialize" /\ ~ret'.hung /\ ret'.at = NoFault
               /\ proc[ret'.p] = FreshProcess )
             =>
             /\ ret'.r = 0
             /\ GoodPath(proc'[ret'.p]) = hi
             /\ dev'[hi] = dev[hi]
             /\ StoredIn(dev'[lo], lo).ok
             /\ StoredIn(dev'[lo], lo).data = Stored(hi).data
             /\ StoredIn(dev'[lo], lo).wc = Stored(hi).wc
        /\ ( /\ ret.op = "initialize" /\ ~ret.hung /\ ret.r = 0
             /\ \E i \in 1..Len(writes) :
                  writes[i].old.magic /\ writes[i].old.wc < writes[i].new.wc
             /\ ret'.op = "verify" /\ ret'.p = ret.p /\ ret'.at = NoFault )
           => ~ret'.hung /\ ret'.r = 1
      ]_vars

\* initialise has chosen the replica with the higher counter and has
\* rewritten the other one, which carried the magic and a lower counter
C16_StaleReplicaRewritten ==
    /\ Returned({"initialize"}) /\ ret.r = 0
    /\ Len(writes) = 1
    /\ writes[1].path # GoodPath(proc[ret.p])
    /\ writes[1].old.magic
    /\ writes[1].old.wc < writes[1].new.wc
    /\ writes[1].new.wc = Authoritative.wc
    /\ \A d \in Devices : Stored(d).ok /\ Stored(d).data = Authoritative.data

(***************************************************************************)
(* Initialise called again.                                                *)
(***************************************************************************)
\* C17: an initialise called right after an initialise of the same process
\* returns, returns 0 when the first one returned 0, and leaves the pool,
\* the authoritative replica with its cached document and every device as
\* they were after the first call.
C17_IdempotentInitialize ==
    [][ ( /\ ret.op = "initialize" /\ ~ret.hung
          /\ ret'.op = "initialize" /\ ret'.p = ret.p )
        =>
        /\ ~ret'.hung
        /\ ret.r = 0 => ret'.r = 0
        /\ proc'[ret.p].pool = proc[ret.p].pool
        /\ proc'[ret.p].good = proc[ret.p].good
        /\ dev' = dev
      ]_vars

\* The second initialise of a process never returns: the first one returned
\* an error, the second has loaded the configuration onto the list again
\* and waits for the lock of a device that the process itself holds.
C17_SecondInitializeBlocks ==
    /\ ret.op = "initialize" /\ ret.hung
    /\ ~proc[ret.p].initialized
    /\ Len(proc[ret.p].pool) = 2 * Len(Conf)
    /\ \E d \in Devices : lock[d] = ret.p

(***************************************************************************)
(* What verify returns.                                                    *)
(***************************************************************************)
\* C18: a verify that returns in an initialised process returns 1 exactly
\* when every replica other than the authoritative one verifies on its
\* device; it returns 2 only when one of them did not and every one that
\* did not verifies afterwards; and when a write of a rewrite fails it
\* returns a negative value.
C18_VerifyResult ==
    [][ \A g \in Devices :
          ( /\ ret'.op = "verify" /\ ~ret'.hung
            /\ proc[ret'.p].initialized /\ ~proc[ret'.p].mutex
            /\ g = GoodPath(proc[ret'.p]) )
          =>
          /\ ret'.r = 1 <=> \A d \in Devices \ {g} : Stored(d).ok
          /\ ret'.r = 2 =>
               /\ \E d \in Devices \ {g} : ~Stored(d).ok
               /\ \A d \in Devices \ {g} : StoredIn(dev'[d], d).ok
          /\ ret'.at # NoFault => ret'.r < 0
      ]_vars

\* verify has returned 2 although a write of the rewrite failed: the
\* replica it was rewriting does not verify
C18_TwoAfterFailedRewrite ==
    /\ Returned({"verify"}) /\ ret.r = 2
    /\ ret.at # NoFault
    /\ ret.at.idx # proc[ret.p].good
    /\ ~Stored(ret.at.idx).ok

(***************************************************************************)
(* The flags and the value of set.                                         *)
(***************************************************************************)
\* the cached footer fields and document of every struct eeprom of pr
Cached(pr) ==
    [i \in 1..Len(pr.pool) |->
       <<pr.pool[i].sha256, pr.pool[i].wc, pr.pool[i].data>>]

\* C19: a set with EEPROM_MANAGER_SET_NO_CREATE of a key that is not in the
\* document returns WRITE_KEY_NOT_FOUND, writes to no device and leaves the
\* cached document, digests and counters as they were.  With the flag and
\* a key that is there, or without the flag, a set never returns
\* WRITE_KEY_NOT_FOUND, returns 0 when the new document is within the
\* capacity, and after it returned 0 the document holds the value under the
\* key and every other member as before.
C19_NoCreate ==
    [][ ( ret'.op = "set" /\ ~ret'.hung /\ Usable(ret'.p) )
        =>
        IF ret'.flags = EEPROM_MANAGER_SET_NO_CREATE
             /\ ret'.key \notin DOMAIN LoadGood(proc[ret'.p]).obj
        THEN /\ ret'.r = EEPROM_MANAGER_ERROR_WRITE_KEY_NOT_FOUND
             /\ dev' = dev
             /\ writes' = <<>>
             /\ Cached(proc'[ret'.p]) = Cached(proc[ret'.p])
        ELSE /\ ret'.r \in {0, EEPROM_MANAGER_ERROR_WRITE_JSON_TOO_LONG}
             /\ Len(NewDocument(ret'.p, ret'.key, ret'.val)) <= Capacity(ret'.p)
                  => ret'.r = 0
             /\ ret'.r = 0 =>
                  /\ DOMAIN LoadGood(proc'[ret'.p]).obj
                       = DOMAIN LoadGood(proc[ret'.p]).obj \cup {ret'.key}
                  /\ LoadGood(proc'[ret'.p]).obj[ret'.key] = ret'.val
                  /\ \A k \in DOMAIN LoadGood(proc[ret'.p]).obj \ {ret'.key} :
                       LoadGood(proc'[ret'.p]).obj[k]
                         = LoadGood(proc[ret'.p]).obj[k]
      ]_vars

\* A set with the flag has been refused for an absent key, and a set with
\* the flag has replaced the value of a key that was there
C19_NoCreateRefused ==
    /\ Returned({"set"})
    /\ ret.flags = EEPROM_MANAGER_SET_NO_CREATE
    /\ ret.r = EEPROM_MANAGER_ERROR_WRITE_KEY_NOT_FOUND
    /\ ret.key \notin DOMAIN LoadGood(proc[ret.p]).obj
    /\ LoadGood(proc[ret.p]).kind = "object"
    /\ writes = <<>>

\* C20: a set called with a null value, which is not refused for the flag,
\* returns 0 and the document then holds the empty string under the key; a
\* get of the key called next returns 0 and the empty string.
C20_NullValueIsEmptyString ==
    [][ /\ ( /\ ret'.op = "set" /\ ret'.val = NoData
             /\ Usable(ret'.p)
             /\ ~( /\ ret'.flags = EEPROM_MANAGER_SET_NO_CREATE
                   /\ ret'.key \notin DOMAIN LoadGood(proc[ret'.p]).obj ) )
           => /\ ~ret'.hung
              /\ ret'.r = 0
              /\ ret'.key \in DOMAIN LoadGood(proc'[ret'.p]).obj
              /\ LoadGood(proc'[ret'.p]).obj[ret'.key] = <<>>
        /\ ( /\ ret.op = "set" /\ ret.val = NoData /\ ~ret.hung /\ ret.r = 0
             /\ ret'.op = "get" /\ ret'.p = ret.p /\ ret'.key = ret.key )
           => ~ret'.hung /\ ret'.r = 0 /\ ret'.out = <<>>
      ]_vars

\* set has been called with a null value in an initialised process that
\* held nothing, and has returned -1 without touching the document
C20_NullValueRefused ==
    /\ Returned({"set"})
    /\ ret.val = NoData
    /\ ret.r = -1
    /\ Usable(ret.p)
    /\ ret.key \notin DOMAIN LoadGood(proc[ret.p]).obj

(***************************************************************************)
(* Clear.                                                                  *)
(***************************************************************************)
\* "{}"
EmptyText == json_dumps(EmptyObject)

\* C21: after a clear that returned 0 the authoritative replica of the
\* caller is the first pool entry, its cached document is the empty object,
\* every replica holds the empty object on device, and a get of any key
\* returns key-not-found.
C21_ClearResets ==
    (Returned({"clear"}) /\ ret.r = 0) =>
        /\ proc[ret.p].good = 1
        /\ proc[ret.p].pool[1].data = EmptyText
        /\ \A d \in Devices : Stored(d).data = EmptyText
        /\ \A k \in Keys :
             eeprom_manager_read_value(proc[ret.p], dev, lock, ret.p, k,
                                       EEPROM_MANAGER_MAX_VALUE_LENGTH).r
               = EEPROM_MANAGER_ERROR_JSON_READ_KEY_NOT_FOUND

\* A clear has returned 0 and the first replica still holds on device a
\* document with a key, written by the other process.
C21_FirstReplicaNotCleared ==
    /\ Returned({"clear"}) /\ ret.r = 0
    /\ proc[ret.p].good = 1
    /\ Stored(1).data # EmptyText
    /\ Stored(2).data = EmptyText

(***************************************************************************)
(* Remove.                                                                 *)
(***************************************************************************)
\* the document that the last call, a remove, had to write
Removed == json_dumps(json_object_del(ret.before, ret.key))

LockedOut(p) ==
    /\ proc[p].status = "run"
    /\ WaitsFrom(IF proc[p].pool = <<>> THEN ConfPool ELSE proc[p].pool,
                 lock, p, 1)

\* C23: two processes with the same configuration never deadlock on the
\* replica locks: every call returns, and between calls no process is kept
\* waiting for a replica lock, since all locks are released before a call
\* returns.
C23_NoLockDeadlock ==
    /\ ret.op \in Facade => ~ret.hung
    /\ \A p \in Procs : ~LockedOut(p)

\* A get of one process has returned and the other process, which is not
\* inside a call, waits for the replica locks that the first still holds.
C23_WaitsForReturnedCall ==
    /\ Returned({"get"})
    /\ \A d \in Devices : lock[d] = ret.p
    /\ \E p \in Procs \ {ret.p} : LockedOut(p)

\* process p is between the lock acquisition and the release of a call
HoldsPool(p) ==
    /\ proc[p].status = "locked"
    /\ \A d \in Devices : lock[d] = p
    /\ \A i \in 1..Len(proc[p].pool) : proc[p].pool[i].fd # 0

\* C24: the part of a call that reads or writes the devices is run by a
\* process that holds the lock on every replica of the pool, and no two
\* processes are at the same time between the lock acquisition and the
\* release of a call.
C24_LockedIo ==
    /\ [][ (ret' # ret \/ dev' # dev) => HoldsPool(ret'.p) ]_vars
    /\ [] ~(\E p, q \in Procs : p # q /\ proc[p].status = "locked"
                                      /\ proc[q].status = "locked")

\* One process holds every lock, inside a call, and the other has entered
\* a call and waits in flock for the first device.
C24_OtherWaits ==
    \E p, q \in Procs :
        /\ HoldsPool(p)
        /\ proc[q].status = "opening"
        /\ lock[proc[q].pool[NextOpen(proc[q].pool)].path] = p

(***************************************************************************)
(* Threads of one process.                                                 *)
(***************************************************************************)
\* C25: within one process at most one thread at a time is inside the body
\* of a call that reads or changes the list, good_eeprom or a cached buffer.
C25_OneThreadInside ==
    Cardinality({t \in Threads : inside[t] # "none"}) <= 1

\* One thread is inside the body of a set, with the mutex, and another
\* thread is inside eeprom_manager_cleanup.
C25_CleanupDuringSet ==
    /\ proc[1].mutex
    /\ \E t, u \in Threads : inside[t] = "set" /\ inside[u] = "cleanup"

(***************************************************************************)
(* The choice of the authoritative replica.                                *)
(***************************************************************************)
\* the replicas that carry the magic, the highest write count of the
\* replicas that carry the magic, and a document that matches the digest
Candidates ==
    {d \in Devices :
        /\ Stored(d).magic
        /\ Stored(d).ok
        /\ \A e \in Devices : Stored(e).magic => Stored(e).wc <= Stored(d).wc}

\* C26: when an initialise of a new process returns 0, the authoritative
\* replica is the first in pool order of the replicas that carry the magic,
\* have the highest write count of all replicas that carry the magic, and
\* hold a document that matches the footer digest.
C26_QuorumSelection ==
    [][ ( /\ ret'.op = "initialize" /\ ~ret'.hung /\ ret'.r = 0
          /\ ~proc[ret'.p].initialized )
        => /\ proc'[ret'.p].good \in 1..Len(proc'[ret'.p].pool)
           /\ GoodPath(proc'[ret'.p]) \in Candidates
           /\ \A d \in Candidates : GoodPath(proc'[ret'.p]) <= d
           /\ proc'[ret'.p].pool[proc'[ret'.p].good].data
                = Stored(GoodPath(proc'[ret'.p])).data
      ]_vars

\* initialise has returned 0 with the second replica as the authoritative
\* one and has written the first, which carried no magic.
C26_BlankReplicaPassedOver ==
    /\ Returned({"initialize"}) /\ ret.r = 0
    /\ proc[ret.p].good = 2
    /\ Len(writes) = 1
    /\ writes[1].path = 1
    /\ ~writes[1].old.magic
    /\ writes[1].new.magic

(***************************************************************************)
(* The order of the writes to one replica.                                 *)
(***************************************************************************)
\* the device that the interrupted write of the last call was writing
Interrupted == ConfPool[ret.at.idx].path

\* C27: when a write of a document that fits in the data blocks is cut
\* short at any of its calls of read_write_all, the replica is left either
\* without the magic (the footer block is zeroed first and the footer is
\* written last) or with a digest that matches its document.
C27_TornWriteDetectable ==
    ( /\ ret.op = "crash"
      /\ Len(json_dumps(InFlight)) < BlockSize * (BlockCount - 1) )
    => \/ ~Stored(Interrupted).magic
       \/ Stored(Interrupted).ok

\* The process was killed between the write of the magic and the write of
\* the digest: the replica carries the magic and an empty digest.
C27_MagicWithoutDigest ==
    /\ ret.op = "crash"
    /\ ret.at.step = ret.flags + 3
    /\ Len(json_dumps(InFlight)) < BlockSize * (BlockCount - 1)
    /\ Stored(Interrupted).magic
    /\ Stored(Interrupted).sha256 = <<>>
    /\ ~Stored(Interrupted).ok

\* C28: in a set or clear that writes the authoritative replica, that
\* replica is the first one written and the others follow, wherever the
\* authoritative replica is in the pool.
C28_AuthoritativeFirst ==
    ( /\ Returned({"set", "clear"})
      /\ \E i \in 1..Len(writes) : writes[i].path = GoodPath(proc[ret.p]) )
    => writes[1].path = GoodPath(proc[ret.p])

\* A set has returned 0 in a process whose authoritative replica is the
\* second pool entry: the first entry was written before it.
C28_CloneWrittenFirst ==
    /\ Returned({"set"}) /\ ret.r = 0
    /\ proc[ret.p].good = 2
    /\ Len(writes) = 2
    /\ writes[1].path = 1
    /\ writes[2].path = 2

\* C29: when the open or the lock of the k-th replica fails, acquire-all
\* returns an error and the process holds no lock and no open handle on
\* the replicas before it.
C29_AllOrNothing ==
    ( ret.op = "open" /\ proc[ret.p].status = "run" )
    => /\ ret.r < 0
       /\ \A i \in 1..Len(proc[ret.p].pool) :
            /\ proc[ret.p].pool[i].fd <= 0
            /\ lock[proc[ret.p].pool[i].path] # ret.p

\* The open of the second replica has failed: the call has returned -1 and
\* the process still holds the handle and the lock of the first replica.
C29_FirstLockKept ==
    /\ ret.op = "open" /\ ret.r = -1 /\ ret.at.idx = 2
    /\ proc[ret.p].status = "run"
    /\ proc[ret.p].pool[1].fd = 1
    /\ lock[proc[ret.p].pool[1].path] = ret.p

\* the struct eeprom that wrote the replica read last, and the one that
\* read it
Writer == proc[1].pool[writes[1].path]
Reader == proc[2].pool[writes[1].path]

\* C30: a document that fits in the data blocks, written to a replica
\* with whatever prior contents and then read from it, comes back as
\* written, with the digest of the footer matching it and the counter of
\* the footer the one written.
C30_RoundTrip ==
    ( ret.op = "read" /\ Len(ret.val) <= DataBlocks(Writer) )
    => /\ ret.r = 0
       /\ Reader.data = ret.val
       /\ Reader.sha256 = get_sha256_string(ret.val)
       /\ Reader.wc = Writer.wc

\* A document that ends with the last byte of the data blocks has been
\* written and read: the read has failed the digest check.
C30_PackedDocumentFailsCheck ==
    /\ ret.op = "read"
    /\ Len(ret.val) = DataBlocks(Writer)
    /\ ret.r = EEPROM_MANAGER_ERROR_CHECKSUM_FAILED

\* the bytes that the data blocks of the replica read last hold in front
\* of their first NUL
DataRegion ==
    CStr(SubSeq(dev[writes[1].path], 1, DataBlocks(Writer)))

\* C31: read document takes its bytes from the N-1 data blocks only: it
\* returns the number of bytes in front of the first NUL, B*(N-1) when the
\* data blocks hold no NUL, and the buffer holds those bytes.
C31_ReadStopsAtFooter ==
    ret.op = "readback"
    => /\ ret.r = Len(DataRegion)
       /\ Reader.data = DataRegion

\* A replica whose data blocks hold no NUL has been read: the return value
\* counts the magic of the footer block as well.
C31_MagicReadAsDocument ==
    /\ ret.op = "readback"
    /\ Len(ret.val) = DataBlocks(Writer)
    /\ Len(DataRegion) = DataBlocks(Writer)
    /\ ret.r = DataBlocks(Writer) + Len(EEPROM_MANAGER_MAGIC)
    /\ Reader.data = DataRegion \o EEPROM_MANAGER_MAGIC

\* C32: read_write_all returns count whenever the count bytes have been
\* transferred within EEPROM_MANAGER_MAX_RW_ATTEMPTS attempts, the last
\* one included, and returns an error for the budget only when fewer than
\* count bytes have been transferred.
C32_RetryBudget ==
    ( /\ rw.pc = "done"
      /\ rw.errno \in {"none", "EIO"}
      /\ rw.attempts <= EEPROM_MANAGER_MAX_RW_ATTEMPTS )
    => /\ rw.ret = rw.count => rw.r = rw.count
       /\ rw.r < 0 => rw.ret < rw.count

\* The last byte has arrived with attempt EEPROM_MANAGER_MAX_RW_ATTEMPTS
\* and the call has returned -1.
C32_HundredthAttemptFails ==
    /\ rw.pc = "done"
    /\ rw.attempts = EEPROM_MANAGER_MAX_RW_ATTEMPTS
    /\ rw.ret = rw.count
    /\ rw.r = -1
    /\ rw.errno = "EIO"

\* C33: a read or write that a signal interrupts is started again:
\* read_write_all does not return an error for the interruption.
C33_InterruptRestarted ==
    rw.pc = "done" => ~(rw.r < 0 /\ rw.errno = "EINTR")

\* A system call of a transfer under way was interrupted, and the call
\* has returned -1 with bytes left to transfer.
C33_InterruptReturned ==
    /\ rw.pc = "done"
    /\ rw.errno = "EINTR"
    /\ rw.r = -1
    /\ rw.attempts > 0
    /\ rw.ret < rw.count

(***************************************************************************)
(* Configuration load on its own: a process reads a configuration file of  *)
(* two lines whose block sizes lie around the length of the footer.        *)
(***************************************************************************)
\* the block sizes of the configuration files read
BlockSizes == (FooterLen - 1)..(BlockSize + 1)

ConfFiles ==
    {<<[path |-> 1, bs |-> a, size |-> a * BlockCount],
       [path |-> 2, bs |-> b, size |-> b * BlockCount]>> :
        a \in BlockSizes, b \in BlockSizes}

\* load_conf_data of process p, which has no list yet
LoadConf(p) ==
    /\ proc[p].pool = <<>>
    /\ \E lines \in ConfFiles :
         /\ proc' = [proc EXCEPT ![p] = load_conf_lines(@, lines)]
         /\ ret' = [NoCall EXCEPT !.op = "load", !.p = p, !.conf = lines]
    /\ writes' = <<>>
    /\ UNCHANGED <<dev, lock, expect, nsets, nfaults, nexits, inside, rw>>

NextConf == \E p \in Procs : LoadConf(p)

SpecConf == Init2P /\ [][NextConf]_vars

\* the bytes of its footer block that a write of replica e reaches: from
\* the start of the block to the end of the counter
FooterBytes(e) ==
    LET Reach(steps, f) ==
            steps[Len(steps)].off + Len(steps[Len(steps)].bytes) - f
        Writes(image, e1) == Reach(WriteSteps(image, e1), FooterOffset(image, e1))
    IN Writes(Zeros(e.bs * e.count),
              [e EXCEPT !.data = json_dumps(EmptyObject),
                        !.sha256 = get_sha256_string(json_dumps(EmptyObject))])

\* C34: every replica accepted at configuration load has a block size at
\* least the number of bytes that the footer writer stores in the footer
\* block, and every line with a block size of 79 or more is accepted
\* (smaller ones are left out).
C34_FooterFitsBlock ==
    ret.op = "load"
    => /\ \A i \in 1..Len(proc[ret.p].pool) :
            proc[ret.p].pool[i].bs >= FooterBytes(proc[ret.p].pool[i])
       /\ \A l \in 1..Len(ret.conf) :
            ret.conf[l].bs >= FooterLen
            <=> \E i \in 1..Len(proc[ret.p].pool) :
                   proc[ret.p].pool[i].path = ret.conf[l].path

\* A file with block sizes 79 and 82 has been loaded: the replica of 79 is
\* left out, and the one of 82 is in the pool although the footer writer
\* stores 83 bytes.
C34_FooterLongerThanBlock ==
    /\ ret.op = "load"
    /\ ret.conf[1].bs = FooterLen
    /\ Len(proc[ret.p].pool) = 1
    /\ proc[ret.p].pool[1].path = ret.conf[2].path
    /\ proc[ret.p].pool[1].bs = EEPROM_MANAGER_METADATA_LENGTH
    /\ FooterBytes(proc[ret.p].pool[1]) = proc[ret.p].pool[1].bs + 1

\* the cached document, digest and counter of every replica of a process,
\* and its choice of the authoritative replica
Cache(pr) ==
    [good |-> pr.good,
     pool |-> [i \in 1..Len(pr.pool) |->
                 [data |-> pr.pool[i].data, sha256 |-> pr.pool[i].sha256,
                  wc |-> pr.pool[i].wc]]]

JsonErrors ==
    {EEPROM_MANAGER_ERROR_JSON_PARSE_FAIL,
     EEPROM_MANAGER_ERROR_JSON_ROOT_NOT_OBJECT,
     EEPROM_MANAGER_ERROR_JANSSON_ERROR}

\* the error of the JSON steps of a set of process pr with this value, 0
\* when they go through
JsonErrorOf(pr, key, value, flags) ==
    LET Kind(j) ==
            IF j.kind = "fail" THEN EEPROM_MANAGER_ERROR_JSON_PARSE_FAIL
            ELSE IF j.kind # "object"
            THEN EEPROM_MANAGER_ERROR_JSON_ROOT_NOT_OBJECT
            ELSE IF flags = EEPROM_MANAGER_SET_NO_CREATE
                    /\ key \notin DOMAIN j.obj
            THEN 0
            ELSE IF \E i \in 1..Len(value) : value[i] = 255
            THEN EEPROM_MANAGER_ERROR_JANSSON_ERROR
            ELSE 0
    IN Kind(json_loads(pr.pool[pr.good].data))

\* C35: a set whose cached document does not parse, whose root is no
\* object, or whose value the codec refuses returns the error of that
\* kind, and a set that returns one of these errors has changed no device
\* and no cached document, digest or counter.
C35_JsonErrorWritesNothing ==
    [][ ( /\ ret'.op = "set" /\ ~ret'.hung
          /\ ret'.val # NoData
          /\ proc[ret'.p].good # 0
          /\ proc[ret'.p].pool[proc[ret'.p].good].data # NoData
          /\ ~proc[ret'.p].mutex )
        => /\ JsonErrorOf(proc[ret'.p], ret'.key, ret'.val, ret'.flags) # 0
              => ret'.r = JsonErrorOf(proc[ret'.p], ret'.key, ret'.val,
                                      ret'.flags)
           /\ ret'.r \in JsonErrors
              => /\ dev' = dev
                 /\ Cache(proc'[ret'.p]) = Cache(proc[ret'.p]) ]_vars

\* A set has returned the parse error over a cached document that is no
\* JSON text, and the devices hold what they held.
C35_ParseErrorReturned ==
    /\ Returned({"set"})
    /\ ret.r = EEPROM_MANAGER_ERROR_JSON_PARSE_FAIL
    /\ proc[ret.p].good # 0
    /\ proc[ret.p].pool[proc[ret.p].good].data = BraceText
    /\ dev[GoodPath(proc[ret.p])] = Written(BraceText, get_sha256_string(BraceText), 2)

\* C36: when the write of a replica fails inside a set or clear, the
\* cached digest and counter of that replica are what they were before the
\* call.
C36_FailedWriteKeepsCache ==
    [][ ( /\ ret'.op \in {"set", "clear"} /\ ~ret'.hung
          /\ ret'.at # NoFault )
        => /\ proc'[ret'.p].pool[ret'.at.idx].sha256
                = proc[ret'.p].pool[ret'.at.idx].sha256
           /\ proc'[ret'.p].pool[ret'.at.idx].wc
                = proc[ret'.p].pool[ret'.at.idx].wc ]_vars

\* The write of the authoritative replica has failed at its first step
\* inside a set: the device holds the footer it held, and the cached
\* digest is that of the new document, which is not the one in the footer.
C36_CachedDigestAhead ==
    /\ Returned({"set"})
    /\ ret.at.idx = proc[ret.p].good
    /\ ret.at.step = 1
    /\ Stored(GoodPath(proc[ret.p])).ok
    /\ proc[ret.p].pool[ret.at.idx].sha256
         = get_sha256_string(json_dumps(InFlight))
    /\ proc[ret.p].pool[ret.at.idx].sha256
         # Stored(GoodPath(proc[ret.p])).sha256

\* C37: a verify that returns 1 has found, on every replica other than the
\* authoritative one, the magic and a digest that matches the document on
\* the device; and a verify that returns 1 or 2 over a replica without
\* magic returns 2 and has rewritten that replica so that it verifies.
C37_VerifyNeedsMagic ==
    [][ ( /\ ret'.op = "verify" /\ ~ret'.hung /\ ret'.at = NoFault
          /\ ret'.r > 0
          /\ proc[ret'.p].good # 0 )
        => \A d \in Devices \ {GoodPath(proc[ret'.p])} :
             /\ ret'.r = 1 => Stored(d).magic /\ Stored(d).ok
             /\ ~Stored(d).magic
                => ret'.r = 2 /\ StoredIn(dev'[d], d).ok ]_vars

\* A verify has returned 1 and a replica other than the authoritative one
\* has no magic in its footer.
C37_NoMagicPasses ==
    /\ Returned({"verify"})
    /\ ret.r = 1
    /\ proc[ret.p].good # 0
    /\ \E d \in Devices \ {GoodPath(proc[ret.p])} : ~Stored(d).magic

\* C38: a set that returns 0 and leaves the document as it was writes to
\* no replica.
C38_UnchangedSetWritesNothing ==
    ( /\ Returned({"set"})
      /\ ret.r = 0 /\ ret.at = NoFault
      /\ ~ret.changed )
    => writes = <<>>

\* A set of the value that the key has already has returned 0: the
\* authoritative replica was not written and the other replica was.
C38_CloneRewritten ==
    /\ Returned({"set"})
    /\ ret.r = 0 /\ ret.at = NoFault
    /\ ~ret.changed
    /\ Len(writes) = 1
    /\ writes[1].path # GoodPath(proc[ret.p])
    /\ writes[1].old.magic /\ writes[1].new.magic

\* C39: after eeprom_manager_cleanup the store is not initialised: the
\* list is empty, and a get or an info called afterwards returns the error
\* of a store that is not initialised; an initialise called afterwards
\* builds the pool again, so that the process is not left with the freed
\* list after it.
C39_UninitialisedAfterCleanup ==
    \A p \in Procs :
        proc[p].status = "freed"
        => /\ ~is_initialized(proc[p])
           /\ (ret.p = p /\ ret.op \in {"get", "info"}) => ret.r = -1
           /\ ~(ret.p = p /\ ret.op = "initialize")

\* After the cleanup the list is not empty and eeprom_manager_info has
\* returned its head.
C39_FreedPoolUsed ==
    /\ proc[1].status = "freed"
    /\ is_initialized(proc[1])
    /\ ret.p = 1
    /\ ret.op = "info" /\ ret.r = 0

\* C40: a get, whether its key is in the document or not and whatever it
\* returns, leaves every device as it is (document and footer), and leaves
\* the cached document, digest and counter of every device and the choice
\* of good_eeprom of the calling process as they are.
C40_GetChangesNothing ==
    [][ ret'.op = "get"
        => /\ dev' = dev
           /\ Cache(proc'[ret'.p]) = Cache(proc[ret'.p]) ]_vars

\* A get has returned the value of a key from the cache of a process whose
\* devices another process has written since.
C40_GetFromCache ==
    /\ Returned({"get"})
    /\ ret.r = 0
    /\ ret.out # <<>>
    /\ proc[ret.p].good # 0
    /\ Stored(GoodPath(proc[ret.p])).sha256
           # proc[ret.p].pool[proc[ret.p].good].sha256

====
